---- MODULE Spec2Model ----
(***************************************************************************)
(* Watcher SDK: the error-processing pipeline of src/core/processor.ts     *)
(* (sampler, rate limiter, sanitizer, fingerprint, deduplicator, deferred  *)
(* dispatch) with its helpers from src/utils/hash.ts, src/utils/sanitize.ts*)
(* and src/core/config.ts.                                                 *)
(*                                                                         *)
(* Strings are sequences of UTF-16 code units.  A JavaScript value that    *)
(* may be a string, undefined/null or a number is a record [t, v]:         *)
(*   t = "str"   : the string v                                            *)
(*   t = "undef" : undefined or null (v = << >>)                           *)
(*   t = "num"   : the number v[1]                                         *)
(* Times are milliseconds as returned by Date.now().                       *)
(***************************************************************************)
EXTENDS Integers, Sequences, FiniteSets, TLC

(***************************************************************************)
(* JavaScript values                                                       *)
(***************************************************************************)
Str(s) == [t |-> "str", v |-> s]
Undef == [t |-> "undef", v |-> << >>]
Num(n) == [t |-> "num", v |-> <<n>>]

IsStr(x) == x.t = "str"

\* ToBoolean(x): undefined, null, '' and 0 are falsy
Truthy(x) ==
  CASE x.t = "undef" -> FALSE
    [] x.t = "str" -> x.v # << >>
    [] OTHER -> x.v[1] # 0

(***************************************************************************)
(* src/utils/hash.ts: FNV-1a over 32 bits.  The accumulator is kept as two *)
(* 16-bit halves <<hi, lo>> so that no intermediate product leaves the     *)
(* integer range of TLC;         the arithmetic is exactly mod 2^32.       *)
(***************************************************************************)
W16 == 65536

RECURSIVE Xor(_, _)
Xor(a, b) ==
  IF a = 0 THEN b
  ELSE IF b = 0 THEN a
  ELSE (((a % 2) + (b % 2)) % 2) + 2 * Xor(a \div 2, b \div 2)

\* 0x811c9dc5 >>> 0
FNV_OFFSET_HI == 33052
FNV_OFFSET_LO == 40389
\* 0x01000193 = 2^24 + 0x193
FNV_PRIME_LOW == 403
FNV_PRIME_SHIFT == 256

\* hash ^= input.charCodeAt(i)
HashXor(h, c) == <<h[1], Xor(h[2], c)>>

\* hash = Math.imul(hash, 0x01000193), low 32 bits of the product
HashMul(h) ==
  LET lo403 == h[2] * FNV_PRIME_LOW
      hi403 == h[1] * FNV_PRIME_LOW
      shifted == (h[2] % FNV_PRIME_SHIFT) * FNV_PRIME_SHIFT
  IN  << (hi403 + (lo403 \div W16) + shifted) % W16, lo403 % W16 >>

HashStep(h, c) == HashMul(HashXor(h, c))

\* the loop over input[lo..hi]: the left half is folded first (h1 is evaluated
\* by the test before the right half starts from it)
RECURSIVE HashFold(_, _, _, _)
HashFold(h, s, lo, hi) ==
  IF lo > hi THEN h
  ELSE IF lo = hi THEN HashStep(h, s[lo])
  ELSE LET mid == (lo + hi) \div 2
           h1 == HashFold(h, s, lo, mid)
       IN  IF h1[1] >= 0 THEN HashFold(h1, s, mid + 1, hi) ELSE h1

HexDigit(d) == IF d < 10 THEN 48 + d ELSE 87 + d

\* Number.prototype.toString(16) of a non-negative value below 2^16
RECURSIVE Hex16(_)
Hex16(n) == IF n < 16 THEN <<HexDigit(n)>> ELSE Hex16(n \div 16) \o <<HexDigit(n % 16)>>

\* the same, padded to four digits (the low half under a non-zero high half)
Hex16Padded(n) ==
  << HexDigit(n \div 4096), HexDigit((n \div 256) % 16),
     HexDigit((n \div 16) % 16), HexDigit(n % 16) >>

ToHexPadded(h) == Hex16Padded(h[1]) \o Hex16Padded(h[2])

\* (hash >>> 0).toString(16): no leading zeros
ToHex(h) == IF h[1] = 0 THEN Hex16(h[2]) ELSE Hex16(h[1]) \o Hex16Padded(h[2])

simpleHash(input) ==
  ToHex(HashFold(<<FNV_OFFSET_HI, FNV_OFFSET_LO>>, input, 1, Len(input)))

\* The variable hash as the code holds it: a number hi * 2^16 + lo written
\* <<hi, lo>> with lo in 0..2^16 - 1, and hi negative for a negative number.
\* ToInt32 is the conversion of an operand of ^ and of Math.imul to a signed
\* 32-bit integer, ToUint32 is >>> 0.
ToInt32(x) == <<((x[1] + W16 \div 2) % W16) - W16 \div 2, x[2]>>
ToUint32(x) == <<x[1] % W16, x[2]>>

\* hash ^= c for a code unit c: the upper half of c is 0
XorAssign(x, c) == <<ToInt32(x)[1], Xor(x[2], c)>>

\* Math.imul(hash, 0x01000193): the low 32 bits of the product, signed
Imul(x) ==
  ToInt32(<< (ToInt32(x)[1] * FNV_PRIME_LOW + ((x[2] * FNV_PRIME_LOW) \div W16)
                + (x[2] % FNV_PRIME_SHIFT) * FNV_PRIME_SHIFT) % W16,
             (x[2] * FNV_PRIME_LOW) % W16 >>)

LoopBodyFnv1(x, c) == XorAssign(Imul(x), c)

\* the body of the loop for the code unit c
LoopBody(x, c) == Imul(XorAssign(x, c))

(***************************************************************************)
(* String helpers of the JavaScript runtime                                *)
(***************************************************************************)
\* the code units matched by \s and removed by String.prototype.trim
IsSpace(c) ==
  \/ c \in {9, 10, 11, 12, 13, 32, 160, 5760, 8232, 8233, 8239, 8287, 12288, 65279}
  \/ (c >= 8192 /\ c <= 8202)

RECURSIVE TrimLeft(_)
TrimLeft(s) == IF s # << >> /\ IsSpace(Head(s)) THEN TrimLeft(Tail(s)) ELSE s

RECURSIVE TrimRight(_)
TrimRight(s) ==
  IF s # << >> /\ IsSpace(s[Len(s)]) THEN TrimRight(SubSeq(s, 1, Len(s) - 1)) ELSE s

\* s.trim()
Trim(s) == TrimRight(TrimLeft(s))

\* s.replace(/\s+/g, '')
StripSpace(s) == SelectSeq(s, LAMBDA c : ~IsSpace(c))

\* parts.join('|')
RECURSIVE Join(_)
Join(parts) ==
  IF parts = << >> THEN << >>
  ELSE IF Len(parts) = 1 THEN parts[1]
  ELSE parts[1] \o <<124>> \o Join(Tail(parts))

\* s.toLowerCase() on ASCII letters
ToLower(s) == [i \in 1..Len(s) |-> IF s[i] >= 65 /\ s[i] <= 90 THEN s[i] + 32 ELSE s[i]]

\* hay.includes(needle)
Includes(hay, needle) ==
  \E i \in 1..(Len(hay) - Len(needle) + 1) : SubSeq(hay, i, i + Len(needle) - 1) = needle

StartsWith(s, p) == Len(s) >= Len(p) /\ SubSeq(s, 1, Len(p)) = p

\* index of the first c in s, or 0
IndexOf(s, c) ==
  IF \E i \in 1..Len(s) : s[i] = c
  THEN CHOOSE i \in 1..Len(s) : s[i] = c /\ \A j \in 1..(i - 1) : s[j] # c
  ELSE 0

\* s.split(c)
RECURSIVE Split(_, _)
Split(s, c) ==
  LET i == IndexOf(s, c)
  IN  IF i = 0 THEN <<s>>
      ELSE <<SubSeq(s, 1, i - 1)>> \o Split(SubSeq(s, i + 1, Len(s)), c)

(***************************************************************************)
(* src/utils/sanitize.ts                                                   *)
(***************************************************************************)
SENSITIVE_KEYS ==
  << <<116, 111, 107, 101, 110>>,                                       \* token
     <<97, 117, 116, 104>>,                                             \* auth
     <<97, 117, 116, 104, 111, 114, 105, 122, 97, 116, 105, 111, 110>>, \* authorization
     <<112, 97, 115, 115, 119, 111, 114, 100>>,                         \* password
     <<112, 97, 115, 115, 119, 100>>,                                   \* passwd
     <<115, 101, 99, 114, 101, 116>>,                                   \* secret
     <<97, 112, 105, 95, 107, 101, 121>>,                               \* api_key
     <<97, 112, 105, 107, 101, 121>>,                                   \* apikey
     <<97, 99, 99, 101, 115, 115, 95, 107, 101, 121>>,                  \* access_key
     <<115, 101, 115, 115, 105, 111, 110>>,                             \* session
     <<99, 111, 111, 107, 105, 101>> >>                                 \* cookie

isSensitive(key) ==
  LET k == ToLower(key)
  IN  \E i \in 1..Len(SENSITIVE_KEYS) : Includes(k, SENSITIVE_KEYS[i])

REDACTED == <<82, 69, 68, 65, 67, 84, 69, 68>>

\* '…[truncated]'
TRUNCATION_MARKER == <<8230, 91, 116, 114, 117, 110, 99, 97, 116, 101, 100, 93>>

MESSAGE_MAX == 2000
STACK_MAX == 50000
SOURCE_MAX == 2000

truncateAtMax(x, max) ==
  IF ~IsStr(x) THEN x
  ELSE IF Len(x.v) >= max THEN Str(SubSeq(x.v, 1, max) \o TRUNCATION_MARKER)
  ELSE x

\* nothing is cut off
truncateNever(x, max) == x

\* truncate(s, max): a non-string passes through
truncate(x, max) ==
  IF ~IsStr(x) THEN x
  ELSE IF Len(x.v) > max THEN Str(SubSeq(x.v, 1, max) \o TRUNCATION_MARKER)
  ELSE x

(***************************************************************************)
(* new URL(url, base), URLSearchParams and URL.prototype.toString, for     *)
(* inputs of the form  [http(s)://host][path][?query][#fragment]  whose    *)
(* host, path and fragment need no normalisation other than the encoding   *)
(* of a space.                                                             *)
(***************************************************************************)
\* 'https://localhost', the base when there is no window
LOCALHOST_ORIGIN ==
  <<104, 116, 116, 112, 115, 58, 47, 47, 108, 111, 99, 97, 108, 104, 111, 115, 116>>

HTTPS_PREFIX == <<104, 116, 116, 112, 115, 58, 47, 47>>
HTTP_PREFIX == <<104, 116, 116, 112, 58, 47, 47>>

\* the part of s before the first c (all of s when there is none)
Before(s, c) == IF IndexOf(s, c) = 0 THEN s ELSE SubSeq(s, 1, IndexOf(s, c) - 1)
\* the part of s after the first c (<< >> when there is none)
After(s, c) == IF IndexOf(s, c) = 0 THEN << >> ELSE SubSeq(s, IndexOf(s, c) + 1, Len(s))
Has(s, c) == IndexOf(s, c) # 0

\* percent-encoding of a space in path, query and fragment
RECURSIVE EncodeSpaces(_)
EncodeSpaces(s) ==
  IF s = << >> THEN << >>
  ELSE (IF Head(s) = 32 THEN <<37, 50, 48>> ELSE <<Head(s)>>) \o EncodeSpaces(Tail(s))

\* first position of '/', '?' or '#' in s, or Len(s) + 1
HostEnd(s) ==
  IF \E i \in 1..Len(s) : s[i] \in {47, 63, 35}
  THEN CHOOSE i \in 1..Len(s) : s[i] \in {47, 63, 35} /\ \A j \in 1..(i - 1) : s[j] \notin {47, 63, 35}
  ELSE Len(s) + 1

\* a path begins with '/'
PathOf(rawPath) ==
  IF rawPath # << >> /\ Head(rawPath) = 47 THEN rawPath ELSE <<47>> \o rawPath

\* the URL record: tail is [path][?query][#fragment], noFrag its part before '#'
UrlParts(ok, origin, tail, noFrag) ==
  [ ok |-> ok,
    origin |-> origin,
    path |-> EncodeSpaces(PathOf(Before(noFrag, 63))),
    hasQuery |-> Has(noFrag, 63),
    query |-> EncodeSpaces(After(noFrag, 63)),
    hasFrag |-> Has(tail, 35),
    frag |-> EncodeSpaces(After(tail, 35)) ]

\* an absolute URL: the host is lowercased; an empty host or a space in it throws
AbsoluteParts(scheme, host, tail) ==
  UrlParts(host # << >> /\ \A i \in 1..Len(host) : ~IsSpace(host[i]),
           scheme \o ToLower(host), tail, Before(tail, 35))

AbsoluteUrl(scheme, rest, hostEnd) ==
  AbsoluteParts(scheme, SubSeq(rest, 1, hostEnd - 1), SubSeq(rest, hostEnd, Len(rest)))

\* further slashes after the two of the scheme are skipped before the host
RECURSIVE SkipSlashes(_)
SkipSlashes(s) == IF s # << >> /\ Head(s) = 47 THEN SkipSlashes(Tail(s)) ELSE s

AbsoluteRest(scheme, rest) == AbsoluteUrl(scheme, rest, HostEnd(rest))

\* the URL record of new URL(url, base); ok = FALSE when the constructor throws
ParseUrl(url, base) ==
  IF StartsWith(url, HTTPS_PREFIX)
  THEN AbsoluteRest(HTTPS_PREFIX, SkipSlashes(SubSeq(url, Len(HTTPS_PREFIX) + 1, Len(url))))
  ELSE IF StartsWith(url, HTTP_PREFIX)
  THEN AbsoluteRest(HTTP_PREFIX, SkipSlashes(SubSeq(url, Len(HTTP_PREFIX) + 1, Len(url))))
  ELSE UrlParts(TRUE, base, url, Before(url, 35))

HexVal(c) ==
  IF c >= 48 /\ c <= 57 THEN c - 48
  ELSE IF c >= 65 /\ c <= 70 THEN c - 55
  ELSE IF c >= 97 /\ c <= 102 THEN c - 87
  ELSE 16

\* application/x-www-form-urlencoded decoding of a name or value (ASCII)
RECURSIVE FormDecode(_)
FormDecode(s) ==
  IF s = << >> THEN << >>
  ELSE IF Head(s) = 43 THEN <<32>> \o FormDecode(Tail(s))
  ELSE IF Head(s) = 37 /\ Len(s) >= 3 /\ HexVal(s[2]) < 8 /\ HexVal(s[3]) < 16
       THEN <<16 * HexVal(s[2]) + HexVal(s[3])>> \o FormDecode(SubSeq(s, 4, Len(s)))
  ELSE <<Head(s)>> \o FormDecode(Tail(s))

UpperHexDigit(d) == IF d < 10 THEN 48 + d ELSE 55 + d

FormSafe(c) ==
  \/ (c >= 48 /\ c <= 57) \/ (c >= 65 /\ c <= 90) \/ (c >= 97 /\ c <= 122)
  \/ c \in {42, 45, 46, 95}

\* application/x-www-form-urlencoded serialisation of a name or value (ASCII)
RECURSIVE FormEncode(_)
FormEncode(s) ==
  IF s = << >> THEN << >>
  ELSE (IF FormSafe(Head(s)) THEN <<Head(s)>>
        ELSE IF Head(s) = 32 THEN <<43>>
        ELSE <<37, UpperHexDigit(Head(s) \div 16), UpperHexDigit(Head(s) % 16)>>)
       \o FormEncode(Tail(s))

\* the list of [k, v] pairs of a query string
RECURSIVE ParsePairs(_)
ParsePairs(pieces) ==
  IF pieces = << >> THEN << >>
  ELSE (IF Head(pieces) = << >> THEN << >>
        ELSE << [k |-> FormDecode(Before(Head(pieces), 61)),
                 v |-> FormDecode(After(Head(pieces), 61))] >>)
       \o ParsePairs(Tail(pieces))

ParseQuery(q) == ParsePairs(Split(q, 38))

\* URLSearchParams.set(name, value) when the first pair named name is at
\* position i: that pair takes the value, every later pair of that name goes
ParamsSet(list, i, value) ==
  LET keep == SelectSeq([j \in 1..Len(list) |-> [at |-> j, e |-> list[j]]],
                        LAMBDA x : x.at <= i \/ x.e.k # list[i].k)
  IN  [j \in 1..Len(keep) |-> IF keep[j].at = i THEN [k |-> list[i].k, v |-> value]
                                                ELSE keep[j].e]

RECURSIVE RedactFirstOnly(_, _)
RedactFirstOnly(list, i) ==
  IF i > Len(list) THEN list
  ELSE IF isSensitive(list[i].k) THEN ParamsSet(list, i, REDACTED)
  ELSE RedactFirstOnly(list, i + 1)

\* the for..of loop over the live entries of the list, from position i on
RECURSIVE RedactFrom(_, _)
RedactFrom(list, i) ==
  IF i > Len(list) THEN list
  ELSE IF isSensitive(list[i].k) THEN RedactFrom(ParamsSet(list, i, REDACTED), i + 1)
  ELSE RedactFrom(list, i + 1)

RECURSIVE SerializePairs(_)
SerializePairs(list) ==
  IF list = << >> THEN << >>
  ELSE FormEncode(list[1].k) \o <<61>> \o FormEncode(list[1].v)
       \o (IF Len(list) > 1 THEN <<38>> \o SerializePairs(Tail(list)) ELSE << >>)

\* u.toString(): the query is re-serialised only when set() was called
Href(u, list, touched) ==
  u.origin \o u.path
  \o (IF (IF touched THEN list # << >> ELSE u.hasQuery)
      THEN <<63>> \o (IF touched THEN SerializePairs(list) ELSE u.query)
      ELSE << >>)
  \o (IF u.hasFrag THEN <<35>> \o u.frag ELSE << >>)

\* the loop over u.searchParams (list), and the URL put together again
RedactParams(u, list) ==
  Href(u, RedactFrom(list, 1), \E i \in 1..Len(list) : isSensitive(list[i].k))

\* the try block of sanitizeUrl on the parsed URL u; the catch returns url
RedactUrl(url, u) == IF ~u.ok THEN url ELSE Str(RedactParams(u, ParseQuery(u.query)))

\* sanitizeUrl(url) with base as the origin used for relative URLs
sanitizeUrlWith(url, base) ==
  IF ~Truthy(url) \/ ~IsStr(url) THEN Undef
  ELSE RedactUrl(url, ParseUrl(url.v, base))

sanitizeUrl(url) == sanitizeUrlWith(url, LOCALHOST_ORIGIN)

(***************************************************************************)
(* ErrorPayload (src/types/types.ts).  isObj = FALSE is a null or          *)
(* undefined payload; route stands for the fields the pipeline only        *)
(* copies (position, route, userAgent, environment, sessionId).            *)
(***************************************************************************)
Payload(type, name, message, stack, source, url, route, timestamp) ==
  [ isObj |-> TRUE, type |-> type, name |-> name, message |-> message,
    stack |-> stack, source |-> source, url |-> url, route |-> route,
    timestamp |-> timestamp, fingerprint |-> Undef ]

NullPayload ==
  [ isObj |-> FALSE, type |-> Undef, name |-> Undef, message |-> Undef,
    stack |-> Undef, source |-> Undef, url |-> Undef, route |-> Undef,
    timestamp |-> Undef, fingerprint |-> Undef ]

\* the result of a stage that may throw
Ok(val) == [ok |-> TRUE, val |-> val]
Throw(val) == [ok |-> FALSE, val |-> val]

\* sanitizePayload that stamps the copy anew
sanitizePayloadStamped(p) ==
  IF ~p.isObj THEN Throw(p)
  ELSE Ok([p EXCEPT !.url = sanitizeUrl(IF p.url.t = "undef" THEN Str(<< >>) ELSE p.url),
                    !.message = truncate(p.message, MESSAGE_MAX),
                    !.stack = truncate(p.stack, STACK_MAX),
                    !.source = truncate(p.source, SOURCE_MAX),
                    !.timestamp = Str(<<84, 57>>)])

\* sanitizePayload(p): a new object; reading p.url of null or undefined throws
sanitizePayload(p) ==
  IF ~p.isObj THEN Throw(p)
  ELSE Ok([p EXCEPT !.url = sanitizeUrl(IF p.url.t = "undef" THEN Str(<< >>) ELSE p.url),
                    !.message = truncate(p.message, MESSAGE_MAX),
                    !.stack = truncate(p.stack, STACK_MAX),
                    !.source = truncate(p.source, SOURCE_MAX)])

(***************************************************************************)
(* src/core/processor.ts                                                   *)
(***************************************************************************)
RATE_WINDOW_MS == 5000
RATE_MAX == 50
DEDUP_TTL == 3000
SWEEP_SIZE == 500

\* decimal digits of a natural number
RECURSIVE Decimal(_)
Decimal(n) == IF n < 10 THEN <<48 + n>> ELSE Decimal(n \div 10) \o <<48 + (n % 10)>>

\* the string an element contributes to Array.prototype.join
JoinString(x) ==
  CASE x.t = "undef" -> << >>
    [] x.t = "str" -> x.v
    [] OTHER -> Decimal(x.v[1])

\* (x || ''): the value itself when truthy, else ''
OrEmpty(x) == IF Truthy(x) THEN x ELSE Str(<< >>)

fingerprintWithTimestamp(p) ==
  LET name == OrEmpty(p.name)
      msg == OrEmpty(p.message)
      stack == OrEmpty(p.stack)
      src == OrEmpty(p.source)
  IN  IF ~p.isObj \/ ~IsStr(name) \/ ~IsStr(msg) \/ ~IsStr(stack) \/ ~IsStr(src)
      THEN Throw(<< >>)
      ELSE Ok(simpleHash(Join(<< JoinString(p.type), Trim(name.v), Trim(StripSpace(msg.v)),
                                 Trim(StripSpace(stack.v)), Trim(src.v),
                                 JoinString(p.timestamp) >>)))

\* fingerprint(p): .trim and .replace exist on strings only
fingerprint(p) ==
  LET name == OrEmpty(p.name)
      msg == OrEmpty(p.message)
      stack == OrEmpty(p.stack)
      src == OrEmpty(p.source)
  IN  IF ~p.isObj \/ ~IsStr(name) \/ ~IsStr(msg) \/ ~IsStr(stack) \/ ~IsStr(src)
      THEN Throw(<< >>)
      ELSE Ok(simpleHash(Join(<< JoinString(p.type), Trim(name.v), Trim(StripSpace(msg.v)),
                                 Trim(StripSpace(stack.v)), Trim(src.v) >>)))

(***************************************************************************)
(* The inputs of the model                                                 *)
(***************************************************************************)
RUNTIME_ERROR == <<114, 117, 110, 116, 105, 109, 101, 95, 101, 114, 114, 111, 114>>
TYPE_ERROR == <<84, 121, 112, 101, 69, 114, 114, 111, 114>>
\* 'Cannot read x' and 'boom'
MSG_A == <<67, 97, 110, 110, 111, 116, 32, 114, 101, 97, 100, 32, 120>>
MSG_B == <<98, 111, 111, 109>>
\* 'at f (a.js:1:2)\n at g'
STACK_A == <<97, 116, 32, 102, 32, 40, 97, 46, 106, 115, 58, 49, 58, 50, 41, 10, 32, 97, 116, 32, 103>>
\* 'https://x/y?token=abc&id=1' and '/home'
URL_A == <<104, 116, 116, 112, 115, 58, 47, 47, 120, 47, 121, 63, 116, 111, 107, 101, 110, 61, 97, 98, 99, 38, 105, 100, 61, 49>>
ROUTE_HOME == <<47, 104, 111, 109, 101>>
\* timestamps 'T0' and 'T1'
STAMP_0 == <<84, 48>>
STAMP_1 == <<84, 49>>

\* the payload of the end-to-end scenario, with a sensitive URL
PayloadA ==
  Payload(Str(RUNTIME_ERROR), Str(TYPE_ERROR), Str(MSG_A), Str(STACK_A), Undef,
          Str(URL_A), Str(ROUTE_HOME), Str(STAMP_0))
\* the same kind, name, message, stack and source captured again elsewhere
PayloadA2 ==
  Payload(Str(RUNTIME_ERROR), Str(TYPE_ERROR), Str(MSG_A), Str(STACK_A), Undef,
          Undef, Undef, Str(STAMP_1))
\* another error: a thrown string has no name and no stack
PayloadB ==
  Payload(Str(RUNTIME_ERROR), Undef, Str(MSG_B), Undef, Undef,
          Str(ROUTE_HOME), Str(ROUTE_HOME), Str(STAMP_0))
\* a payload whose message is a number
PayloadBad ==
  Payload(Str(RUNTIME_ERROR), Str(TYPE_ERROR), Num(42), Undef, Undef,
          Undef, Undef, Str(STAMP_0))

RawPayloads == {PayloadA, PayloadA2, PayloadB, PayloadBad, NullPayload}

\* the payload window.onunhandledrejection builds of a rejection with 'boom'
UNHANDLED_PROMISE == <<117, 110, 104, 97, 110, 100, 108, 101, 100, 95, 112, 114, 111, 109, 105, 115, 101>>
PayloadRejection ==
  Payload(Str(UNHANDLED_PROMISE), Undef, Str(MSG_B), Undef, Undef,
          Str(ROUTE_HOME), Str(ROUTE_HOME), Str(STAMP_0))

\* 'E' followed by a number: the messages of the errors that fill the store
Filler(n) ==
  Payload(Str(RUNTIME_ERROR), Str(TYPE_ERROR), Str(<<69>> \o Decimal(n)), Undef, Undef,
          Undef, Undef, Str(STAMP_0))
Fillers == {Filler(n) : n \in 1..SWEEP_SIZE}

\* sanitizePayload and fingerprint on the inputs, computed once
SanitizedOf == [p \in RawPayloads \cup {PayloadRejection} |-> sanitizePayload(p)]
FingerprintOf == [p \in {SanitizedOf[q].val : q \in DOMAIN SanitizedOf} |-> fingerprint(p)]
FillerSanitizedOf == [p \in Fillers |-> sanitizePayload(p)]
FillerFingerprintOf ==
  [p \in {FillerSanitizedOf[q].val : q \in Fillers} |-> fingerprint(p)]

Sanitized(p) == IF p \in DOMAIN SanitizedOf THEN SanitizedOf[p] ELSE FillerSanitizedOf[p]
Fingerprinted(p) ==
  IF p \in DOMAIN FingerprintOf THEN FingerprintOf[p] ELSE FillerFingerprintOf[p]

\* shouldSample: sampleRate and the value drawn by Math.random() are in
\* thousandths; SAMPLE_DEFAULT is the 1 of (cfg?.sampleRate ?? 1)
SAMPLE_DEFAULT == 1000

\* _config (src/core/config.ts): set = FALSE is null
\* 'production', and the defaults of src/config/defaults.ts
PRODUCTION == <<112, 114, 111, 100, 117, 99, 116, 105, 111, 110>>
MAX_BREADCRUMBS_DEFAULT == 20
NoConfig ==
  [set |-> FALSE, environment |-> Undef, sampleRate |-> Undef, maxBreadcrumbs |-> Undef]
Config(rate) ==
  [ set |-> TRUE, environment |-> Str(PRODUCTION), sampleRate |-> rate,
    maxBreadcrumbs |-> Num(MAX_BREADCRUMBS_DEFAULT) ]

\* getConfig(): the empty object when nothing was set
getConfig(c) ==
  IF c.set THEN c
  ELSE [c EXCEPT !.environment = Undef, !.sampleRate = Undef, !.maxBreadcrumbs = Undef]

\* a sampler that admits a draw equal to the rate
shouldSampleInclusive(cfg, random) ==
  LET sampleRate == IF cfg.sampleRate.t = "undef" THEN SAMPLE_DEFAULT
                    ELSE cfg.sampleRate.v[1]
  IN  random <= sampleRate

shouldSampleNoDefault(cfg, random) ==
  cfg.sampleRate.t # "undef" /\ random < cfg.sampleRate.v[1]

shouldSample(cfg, random) ==
  LET sampleRate == IF cfg.sampleRate.t = "undef" THEN SAMPLE_DEFAULT
                    ELSE cfg.sampleRate.v[1]
  IN  random < sampleRate

\* a limiter that stops counting once it has tripped
rateLimitedSaturates(t, ws, cnt) ==
  LET expired == t - ws > RATE_WINDOW_MS
      c0 == IF expired THEN 0 ELSE cnt
      c1 == IF c0 > RATE_MAX THEN c0 ELSE c0 + 1
  IN  [ limited |-> c1 > RATE_MAX,
        windowStart |-> IF expired THEN t ELSE ws,
        countInWindow |-> c1 ]

\* a limiter that resets when the window length is reached
rateLimitedResetsAt(t, ws, cnt) ==
  LET expired == t - ws >= RATE_WINDOW_MS
      c1 == (IF expired THEN 0 ELSE cnt) + 1
  IN  [ limited |-> c1 > RATE_MAX,
        windowStart |-> IF expired THEN t ELSE ws,
        countInWindow |-> c1 ]

rateLimitedEarly(t, ws, cnt) ==
  LET expired == t - ws > RATE_WINDOW_MS
      c1 == (IF expired THEN 0 ELSE cnt) + 1
  IN  [ limited |-> c1 >= RATE_MAX,
        windowStart |-> IF expired THEN t ELSE ws,
        countInWindow |-> c1 ]

\* rateLimited() at time t on the window (ws, cnt)
rateLimited(t, ws, cnt) ==
  LET expired == t - ws > RATE_WINDOW_MS
      c1 == (IF expired THEN 0 ELSE cnt) + 1
  IN  [ limited |-> c1 > RATE_MAX,
        windowStart |-> IF expired THEN t ELSE ws,
        countInWindow |-> c1 ]

\* the Map 'recent' is a function from its keys to their expiry
MapHas(m, key) == key \in DOMAIN m
MapSet(m, key, val) == [k \in DOMAIN m \cup {key} |-> IF k = key THEN val ELSE m[k]]
MapSize(m) == Cardinality(DOMAIN m)
EmptyMap == [k \in {} |-> 0]

SweepAtSize(m, t) ==
  IF MapSize(m) >= SWEEP_SIZE
  THEN [k \in {x \in DOMAIN m : ~(m[x] <= t)} |-> m[k]]
  ELSE m

SweepLate(m, t) ==
  IF MapSize(m) > SWEEP_SIZE + 1
  THEN [k \in {x \in DOMAIN m : ~(m[x] <= t)} |-> m[k]]
  ELSE m

SweepEverything(m, t) ==
  IF MapSize(m) > SWEEP_SIZE THEN EmptyMap ELSE m

\* the comparison of the purge the other way round
SweepFlipped(m, t) ==
  IF MapSize(m) > SWEEP_SIZE
  THEN [k \in {x \in DOMAIN m : ~(m[x] >= t)} |-> m[k]]
  ELSE m

\* the purge loop of deduped
Sweep(m, t) ==
  IF MapSize(m) > SWEEP_SIZE
  THEN [k \in {x \in DOMAIN m : ~(m[x] <= t)} |-> m[k]]
  ELSE m

dedupedInclusive(m, key, ttl, t) ==
  LET has == MapHas(m, key)
      expiry == IF has THEN m[key] ELSE 0
      swept == Sweep(m, t)
  IN  IF has /\ expiry # 0 /\ expiry >= t
      THEN [dup |-> TRUE, recent |-> swept]
      ELSE [dup |-> FALSE, recent |-> MapSet(swept, key, t + ttl)]

dedupedRefreshes(m, key, ttl, t) ==
  LET has == MapHas(m, key)
      expiry == IF has THEN m[key] ELSE 0
      swept == Sweep(m, t)
  IN  IF has /\ expiry # 0 /\ expiry > t
      THEN [dup |-> TRUE, recent |-> MapSet(swept, key, t + ttl)]
      ELSE [dup |-> FALSE, recent |-> MapSet(swept, key, t + ttl)]

dedupedForgets(m, key, ttl, t) ==
  LET has == MapHas(m, key)
      expiry == IF has THEN m[key] ELSE 0
      swept == Sweep(m, t)
  IN  IF has /\ expiry # 0 /\ expiry > t
      THEN [dup |-> TRUE, recent |-> swept]
      ELSE [dup |-> FALSE, recent |-> swept]

\* deduped(key, ttl) at time t on the store m: the expiry is read before the purge
deduped(m, key, ttl, t) ==
  LET has == MapHas(m, key)
      expiry == IF has THEN m[key] ELSE 0
      swept == Sweep(m, t)
  IN  IF has /\ expiry # 0 /\ expiry > t
      THEN [dup |-> TRUE, recent |-> swept]
      ELSE [dup |-> FALSE, recent |-> MapSet(swept, key, t + ttl)]

\* a deduplicator with the same map from fingerprint to expiry and no purge
dedupedReference(m, key, ttl, t) ==
  LET has == MapHas(m, key)
      expiry == IF has THEN m[key] ELSE 0
  IN  IF has /\ expiry # 0 /\ expiry > t
      THEN [dup |-> TRUE, recent |-> m]
      ELSE [dup |-> FALSE, recent |-> MapSet(m, key, t + ttl)]

\* The objects of one call: raw is the caller's object, san the object built
\* by sanitizePayload, pay the object built by { ...sanitized, fingerprint }.
Objects(raw) == [raw |-> raw, san |-> NullPayload, pay |-> NullPayload]

SanitizeInPlace(h, s) == [h EXCEPT !.raw = s.val, !.san = s.val]

\* const sanitized = sanitizePayload(payload), s: only the new object is written
SanitizeStep(h, s) == [h EXCEPT !.san = s.val]

AttachToRaw(h, key) == [h EXCEPT !.pay = [h.raw EXCEPT !.fingerprint = Str(key)]]

\* const payload = { ...sanitized, fingerprint: key }
AttachStep(h, key) == [h EXCEPT !.pay = [h.san EXCEPT !.fingerprint = Str(key)]]

DispatchNow(payload) == [queued |-> << >>, sunk |-> <<payload>>]

\* queueMicrotask(() => console.log(..., payload)): what is queued and what is
\* written to the sink before processError returns
Dispatch(payload) == [queued |-> <<payload>>, sunk |-> << >>]

CatchRethrows(res) == res

\* the catch block: nothing leaves processError
Catch(res) == [res EXCEPT !.escaped = FALSE]

Outcome(kind, thrown, rl, store, h, d) ==
  [ outcome |-> kind, escaped |-> thrown,
    windowStart |-> rl.windowStart, countInWindow |-> rl.countInWindow,
    recent |-> store, rawAfter |-> h.raw,
    queued |-> d.queued, sunk |-> d.sunk ]

NoDispatch == [queued |-> << >>, sunk |-> << >>]
NotCounted(ws, cnt) == [limited |-> FALSE, windowStart |-> ws, countInWindow |-> cnt]

\* a duplicate is kept and dispatched all the same
DedupGateBuffers(rl, h1, h2, dd) ==
  IF dd.dup
  THEN Outcome("duplicate", FALSE, rl, dd.recent, h1, Dispatch(h2.pay))
  ELSE Outcome("dispatched", FALSE, rl, dd.recent, h2, Dispatch(h2.pay))

\* a duplicate gives its place in the window back
DedupGateRefunds(rl, h1, h2, dd) ==
  IF dd.dup
  THEN Outcome("duplicate", FALSE, [rl EXCEPT !.countInWindow = @ - 1], dd.recent, h1,
               NoDispatch)
  ELSE Outcome("dispatched", FALSE, rl, dd.recent, h2, Dispatch(h2.pay))

\* if (deduped(key)) return; ... queueMicrotask(...): dd is the verdict of
\* deduped, h2 holds the payload put together
DedupGate(rl, h1, h2, dd) ==
  IF dd.dup
  THEN Outcome("duplicate", FALSE, rl, dd.recent, h1, NoDispatch)
  ELSE Outcome("dispatched", FALSE, rl, dd.recent, h2, Dispatch(h2.pay))

\* const key = fingerprint(sanitized), which throws when key.ok is FALSE
FingerprintGate(t, rl, store, h1, key) ==
  IF ~key.ok
  THEN Outcome("fault", TRUE, rl, store, h1, NoDispatch)
  ELSE DedupGate(rl, h1, AttachStep(h1, key.val), deduped(store, key.val, DEDUP_TTL, t))

SanitizeGateClears(t, rl, store, h0, s) ==
  IF ~s.ok
  THEN Outcome("fault", TRUE, rl, EmptyMap, h0, NoDispatch)
  ELSE FingerprintGate(t, rl, store, SanitizeStep(h0, s), Fingerprinted(s.val))

\* const sanitized = sanitizePayload(payload), which throws when s.ok is FALSE
SanitizeGate(t, rl, store, h0, s) ==
  IF ~s.ok
  THEN Outcome("fault", TRUE, rl, store, h0, NoDispatch)
  ELSE FingerprintGate(t, rl, store, SanitizeStep(h0, s), Fingerprinted(s.val))

\* the fingerprint is stored before the limiter's answer is looked at
RateGateRecords(raw, t, store, rl) ==
  IF rl.limited
  THEN Outcome("rate_limited", FALSE, rl,
               IF Sanitized(raw).ok
               THEN MapSet(store, Fingerprinted(Sanitized(raw).val).val, t + DEDUP_TTL)
               ELSE store,
               Objects(raw), NoDispatch)
  ELSE SanitizeGate(t, rl, store, Objects(raw), Sanitized(raw))

\* if (rateLimited()) return, rl being what rateLimited() answers and leaves
RateGate(raw, t, store, rl) ==
  IF rl.limited
  THEN Outcome("rate_limited", FALSE, rl, store, Objects(raw), NoDispatch)
  ELSE SanitizeGate(t, rl, store, Objects(raw), Sanitized(raw))

\* the limiter consulted before the sampler
TryBodyRateFirst(raw, random, t, c, ws, cnt, store) ==
  IF ~shouldSample(getConfig(c), random)
  THEN Outcome("sampled_out", FALSE, rateLimited(t, ws, cnt), store, Objects(raw), NoDispatch)
  ELSE RateGate(raw, t, store, rateLimited(t, ws, cnt))

\* the body of the try block, at time t with Math.random() = random
TryBody(raw, random, t, c, ws, cnt, store) ==
  IF ~shouldSample(getConfig(c), random)
  THEN Outcome("sampled_out", FALSE, NotCounted(ws, cnt), store, Objects(raw), NoDispatch)
  ELSE RateGate(raw, t, store, rateLimited(t, ws, cnt))

processError(raw, random, t, c, ws, cnt, store) ==
  Catch(TryBody(raw, random, t, c, ws, cnt, store))

(***************************************************************************)
(* Further inputs and bounds of the model                                  *)
(***************************************************************************)
\* values of Math.random() and of userConfig.sampleRate, in thousandths
RandomDraws == {0, 999}
SampleRates == {Undef, Num(0), Num(500)}

\* the instants at which something happens, from the load of the module at 0
Instants ==
  {0, DEDUP_TTL - 1, DEDUP_TTL, RATE_WINDOW_MS + 1}

\* bounds of the model: pending microtasks, calls per window in Spec, calls
\* beyond RATE_MAX per window in the specifications that reach the limit
MaxQueue == 2
MaxCalls == 2
MaxOver == 2
MaxSweepCalls == 3
\* calls of initWatcher, calls of installGlobalHandlers, and events delivered
MaxRequests == 3
MaxEvents == 2

(***************************************************************************)
(* The state                                                               *)
(***************************************************************************)
VARIABLES
  config,         \* _config of src/core/config.ts
  didInit,        \* didInit of src/index.ts
  now,            \* Date.now()
  windowStart,    \* windowStart of processor.ts
  countInWindow,  \* countInWindow of processor.ts
  recent,         \* the Map recent of processor.ts
  queue,          \* the microtask queue: the dispatches not yet run
  sunk,           \* the latest invocation of the sink (console.log), if any
  dispatched,     \* per fingerprint, the calls that dispatched it, oldest first
  win,            \* the limiter calls counted since the window last elapsed,
                  \* and whether one of them ended in the catch block
  obs,            \* an observer counting admissions over RATE_WINDOW_MS
  last,           \* the processError call made at this instant: input, effects
  applied,        \* a helper function examined on its own: its input, how far
                  \* it has run and what it returned
  installed,      \* installed of src/handlers/global.ts
  window,         \* the global object: whether it exists, window.onerror and
                  \* window.onunhandledrejection
  fired,          \* the calls of initWatcher and installGlobalHandlers made so
                  \* far, and the event being delivered to the handlers: the
                  \* handler still to run and the processError calls it caused
  callStack       \* the call stack, innermost frame first, where processError
                  \* is followed statement by statement

vars ==
  << config, didInit, now, windowStart, countInWindow, recent, queue, sunk,
     dispatched, win, obs, last, applied, installed, window, fired, callStack >>

\* a value of window.onerror or window.onunhandledrejection: nothing, a
\* function of the page, or the function installGlobalHandlers assigns, which
\* keeps the previous value of the slot in prev
NoHandler == [by |-> "none", prev |-> << >>]
PageHandler == [by |-> "page", prev |-> << >>]
WatcherHandler(prev) == [by |-> "watcher", prev |-> <<prev>>]

\* a browser with no handler yet, and an environment with no window (Node)
Browser == [browser |-> TRUE, onerror |-> NoHandler, onunhandledrejection |-> NoHandler]
NoWindow == [browser |-> FALSE, onerror |-> NoHandler, onunhandledrejection |-> NoHandler]

\* installGlobalHandlers without the latch
installGlobalHandlersAgain(inst, w) ==
  IF ~w.browser THEN [installed |-> TRUE, window |-> w]
  ELSE [ installed |-> TRUE,
         window |-> [w EXCEPT !.onerror = WatcherHandler(@),
                              !.onunhandledrejection = WatcherHandler(@)] ]

\* installGlobalHandlers(config): the latch inst and the global object w after
\* the call
installGlobalHandlers(inst, w) ==
  IF inst THEN [installed |-> inst, window |-> w]
  ELSE IF ~w.browser THEN [installed |-> TRUE, window |-> w]
  ELSE [ installed |-> TRUE,
         window |-> [w EXCEPT !.onerror = WatcherHandler(@),
                              !.onunhandledrejection = WatcherHandler(@)] ]

\* the cfg initWatcher builds of userConfig: ?? keeps every value but undefined;
\* outside Node the environment defaults to 'production', in Node to NODE_ENV
NODE_ENV == <<116, 101, 115, 116>>
MergeConfig(userConfig, w) ==
  [ set |-> TRUE,
    environment |-> IF userConfig.environment.t # "undef" THEN userConfig.environment
                    ELSE IF w.browser THEN Str(PRODUCTION) ELSE Str(NODE_ENV),
    sampleRate |-> IF userConfig.sampleRate.t # "undef" THEN userConfig.sampleRate
                   ELSE Num(SAMPLE_DEFAULT),
    maxBreadcrumbs |-> IF userConfig.maxBreadcrumbs.t # "undef" THEN userConfig.maxBreadcrumbs
                       ELSE Num(MAX_BREADCRUMBS_DEFAULT) ]

\* a userConfig that gives the sample rate only
RateOnly(userRate) ==
  [environment |-> Undef, sampleRate |-> userRate, maxBreadcrumbs |-> Undef]

\* no call of initWatcher or installGlobalHandlers yet, no event
NotFired ==
  [ inits |-> 0, installs |-> 0, events |-> 0, delivering |-> FALSE,
    head |-> NoHandler, chain |-> NoHandler, raw |-> NullPayload, calls |-> 0,
    slot |-> "none", built |-> TRUE, pageCalls |-> 0, prevReturned |-> "none",
    result |-> "none" ]

NoCall ==
  [ called |-> FALSE, raw |-> NullPayload, rawAfter |-> NullPayload,
    outcome |-> "none", escaped |-> FALSE, queued |-> << >>, sunk |-> << >>,
    rate |-> 0, storeEmpty |-> TRUE, budget |-> TRUE, elapsed |-> FALSE,
    seen |-> {}, key |-> << >>, since |-> << >> ]

NoObserver == [on |-> FALSE, start |-> 0, count |-> 0]

\* no helper function is examined on its own
NotApplied == [done |-> FALSE]

\* the state when the modules have been loaded, at time 0
Init ==
  /\ config = NoConfig
  /\ didInit = FALSE
  /\ now = 0
  /\ windowStart = 0
  /\ countInWindow = 0
  /\ recent = EmptyMap
  /\ queue = << >>
  /\ sunk = << >>
  /\ dispatched = EmptyMap
  /\ win = [start |-> 0, calls |-> 0, faulted |-> FALSE]
  /\ obs = NoObserver
  /\ last = NoCall
  /\ applied = NotApplied
  /\ installed = FALSE
  /\ window = Browser
  /\ fired = NotFired
  /\ callStack = << >>

\* initWatcher without the didInit flag
InitWatcherAgain(userConfig, cap) ==
  /\ fired.inits < cap /\ ~fired.delivering
  /\ didInit' = TRUE
  /\ config' = MergeConfig(userConfig, window)
  /\ installed' = installGlobalHandlers(installed, window).installed
  /\ window' = installGlobalHandlers(installed, window).window
  /\ fired' = [fired EXCEPT !.inits = @ + 1, !.installs = @ + 1]
  /\ UNCHANGED <<now, windowStart, countInWindow, recent, queue, sunk, dispatched, win, obs,
                 last, applied, callStack>>

\* initWatcher(userConfig) of src/index.ts: only the first call has an effect;
\* it stores the merged configuration and calls installGlobalHandlers. cap
\* bounds the calls made.
InitWatcherCall(userConfig, cap) ==
  /\ fired.inits < cap /\ ~fired.delivering
  /\ IF didInit
     THEN /\ UNCHANGED <<config, didInit, installed, window>>
          /\ fired' = [fired EXCEPT !.inits = @ + 1]
     ELSE /\ didInit' = TRUE
          /\ config' = MergeConfig(userConfig, window)
          /\ installed' = installGlobalHandlers(installed, window).installed
          /\ window' = installGlobalHandlers(installed, window).window
          /\ fired' = [fired EXCEPT !.inits = @ + 1, !.installs = @ + 1]
  /\ UNCHANGED <<now, windowStart, countInWindow, recent, queue, sunk, dispatched, win, obs,
                 last, applied, callStack>>

\* one call of initWatcher with a sample rate
InitWatcher(userRate) == InitWatcherCall(RateOnly(userRate), 1)

\* time passes; last describes a call made at the current instant only
Tick(t) ==
  /\ t > now
  /\ now' = t
  /\ last' = NoCall
  /\ UNCHANGED <<config, didInit, windowStart, countInWindow, recent, queue, sunk,
                 dispatched, win, obs, applied, installed, window, fired, callStack>>

\* an observer starts to count the calls the limiter admits from now on
Observe ==
  /\ ~obs.on
  /\ obs' = [on |-> TRUE, start |-> now, count |-> 0]
  /\ UNCHANGED <<config, didInit, now, windowStart, countInWindow, recent, queue, sunk,
                 dispatched, win, last, applied, installed, window, fired, callStack>>

\* the effective sample rate read by a call
EffectiveRate ==
  IF getConfig(config).sampleRate.t = "undef" THEN SAMPLE_DEFAULT
  ELSE getConfig(config).sampleRate.v[1]

\* kind, name, message, stack and source of a payload
FiveOf(p) == <<p.type, p.name, p.message, p.stack, p.source>>

\* the record of a dispatch: the payload with the call it comes from and the
\* verdict of each gate on what that call found: the sample rate, the limiter
\* calls w of the window and the store; uncaught tells, once the microtask has
\* run, whether an exception left its callback
TaskAt(payload, raw, random, t, rate, w, store) ==
  [ payload |-> payload, raw |-> raw, at |-> t,
    sampled |-> random < rate,
    limited |-> (IF t - w.start > RATE_WINDOW_MS THEN 1 ELSE w.calls + 1) > RATE_MAX,
    dup |-> /\ payload.fingerprint.t = "str"
            /\ MapHas(store, payload.fingerprint.v)
            /\ store[payload.fingerprint.v] > t,
    uncaught |-> FALSE ]

\* the limiter calls of the window after one more call at time t
WinAfter(w, t, reached, fault) ==
  IF ~reached THEN w
  ELSE IF t - w.start > RATE_WINDOW_MS THEN [start |-> t, calls |-> 1, faulted |-> fault]
  ELSE [w EXCEPT !.calls = @ + 1, !.faulted = @ \/ fault]

\* the fingerprint of the sanitized copy of raw, << >> when a stage throws
KeyOfFingerprint(key) == IF key.ok THEN <<Str(key.val)>> ELSE << >>
KeyOfSanitized(s) == IF s.ok THEN KeyOfFingerprint(Fingerprinted(s.val)) ELSE << >>
KeyOf(raw) == KeyOfSanitized(Sanitized(raw))

\* the time of the latest dispatch in log of the fingerprint key, if any
SinceKey(log, key) ==
  IF key # << >> /\ MapHas(log, key[1])
  THEN <<log[key[1]][Len(log[key[1]])].at>>
  ELSE << >>
Since(raw) == SinceKey(dispatched, KeyOf(raw))

\* the dispatches of a call at time t added to the log
RECURSIVE RecordAt(_, _, _, _)
RecordAt(log, payloads, raw, t) ==
  IF payloads = << >> THEN log
  ELSE LET f == Head(payloads).fingerprint
           old == IF MapHas(log, f) THEN log[f] ELSE << >>
       IN  RecordAt(MapSet(log, f, Append(old, [at |-> t, five |-> FiveOf(raw)])),
                    Tail(payloads), raw, t)

\* the times of the dispatches in log of the five fields
SeenAt(log, five) ==
  UNION { { log[f][i].at : i \in { j \in 1..Len(log[f]) : log[f][j].five = five } } :
          f \in DOMAIN log }

\* what a call that returns res leaves, and what is known of it
Returned(raw, random, res) ==
  /\ windowStart' = res.windowStart
  /\ countInWindow' = res.countInWindow
  /\ recent' = res.recent
  /\ queue' = queue \o [i \in 1..Len(res.queued) |->
                          TaskAt(res.queued[i], raw, random, now, EffectiveRate, win, recent)]
  /\ sunk' = IF res.sunk = << >> THEN sunk
             ELSE <<TaskAt(res.sunk[Len(res.sunk)], raw, random, now, EffectiveRate, win,
                           recent)>>
  /\ dispatched' = RecordAt(dispatched, res.queued \o res.sunk, raw, now)
  /\ win' = WinAfter(win, now, res.outcome # "sampled_out", res.outcome = "fault")
  /\ obs' = IF /\ obs.on /\ res.outcome \notin {"sampled_out", "rate_limited"}
               /\ now - obs.start < RATE_WINDOW_MS
            THEN [obs EXCEPT !.count = @ + 1] ELSE obs
  /\ last' = [ called |-> TRUE, raw |-> raw, rawAfter |-> res.rawAfter,
               outcome |-> res.outcome, escaped |-> res.escaped,
               queued |-> res.queued, sunk |-> res.sunk,
               rate |-> EffectiveRate,
               storeEmpty |-> recent = EmptyMap,
               budget |-> win.calls < RATE_MAX \/ now - win.start > RATE_WINDOW_MS,
               elapsed |-> now - win.start > RATE_WINDOW_MS,
               seen |-> SeenAt(dispatched, FiveOf(raw)),
               key |-> KeyOf(raw), since |-> Since(raw) ]

\* a capture source calls processError(raw); cap bounds the calls of a window
ProcessError(raw, random, cap) ==
  /\ countInWindow < cap \/ now - windowStart > RATE_WINDOW_MS
  /\ Len(queue) < MaxQueue
  /\ Returned(raw, random,
              processError(raw, random, now, config, windowStart, countInWindow, recent))
  /\ UNCHANGED <<config, didInit, now, applied, installed, window, fired, callStack>>

\* the microtask queued last runs first
RunMicrotaskNewest(throws) ==
  /\ queue # << >>
  /\ sunk' = <<[queue[Len(queue)] EXCEPT !.uncaught = throws]>>
  /\ queue' = SubSeq(queue, 1, Len(queue) - 1)
  /\ UNCHANGED <<config, didInit, now, windowStart, countInWindow, recent, dispatched,
                 win, obs, last, applied, installed, window, fired, callStack>>

\* the next microtask runs: the sink is invoked with the oldest queued payload;
\* the callback is the console.log call alone, so that an exception thrown by
\* the sink leaves it
RunMicrotask(throws) ==
  /\ queue # << >>
  /\ sunk' = <<[Head(queue) EXCEPT !.uncaught = throws]>>
  /\ queue' = Tail(queue)
  /\ UNCHANGED <<config, didInit, now, windowStart, countInWindow, recent, dispatched,
                 win, obs, last, applied, installed, window, fired, callStack>>

\* the pipeline with every input, a few calls per window
Next ==
  \/ \E userRate \in SampleRates : InitWatcher(userRate)
  \/ \E t \in Instants : Tick(t)
  \/ \E raw \in RawPayloads, random \in RandomDraws : ProcessError(raw, random, MaxCalls)
  \/ RunMicrotask(FALSE)

Spec == Init /\ [][Next]_vars

\* the pipeline where a queued microtask is run: the event loop runs the
\* microtasks queued with queueMicrotask when the running code has returned
LiveInputs == {PayloadA, PayloadA2, PayloadB, NullPayload}

NextLive ==
  \/ \E t \in Instants : Tick(t)
  \/ \E raw \in LiveInputs : ProcessError(raw, 0, MaxCalls + 1)
  \/ RunMicrotask(FALSE)

SpecLive == Init /\ [][NextLive]_vars /\ WF_vars(RunMicrotask(FALSE))

\* the three gates up to the limit of a window: one error and a null payload,
\* and a sink that may throw
NextGates ==
  \/ InitWatcher(Num(500))
  \/ \E t \in {DEDUP_TTL - 1, DEDUP_TTL} : Tick(t)
  \/ \E raw \in {PayloadA, NullPayload}, random \in RandomDraws :
       ProcessError(raw, random, RATE_MAX + MaxOver)
  \/ \E throws \in BOOLEAN : RunMicrotask(throws)

SpecGates == Init /\ [][NextGates]_vars

\* the limiter alone, over two windows, with an observer
NextRate ==
  \/ \E t \in {RATE_WINDOW_MS, RATE_WINDOW_MS + 1, 2 * RATE_WINDOW_MS + 2} : Tick(t)
  \/ ProcessError(NullPayload, 0, RATE_MAX + MaxOver)
  \/ Observe

SpecRate == Init /\ [][NextRate]_vars

\* The purge of the store: SWEEP_SIZE different errors have been processed,
\* RATE_MAX per window from time 0 on, before any configuration, and their
\* microtasks have run. WarmCall is the n-th of these calls.
WarmTime(n) == ((n - 1) \div RATE_MAX) * (RATE_WINDOW_MS + 1)

\* the state st after a call at time t that returns res
WarmReturned(st, raw, t, res) ==
  [ windowStart |-> res.windowStart,
    countInWindow |-> res.countInWindow,
    recent |-> res.recent,
    dispatched |-> RecordAt(st.dispatched, res.queued \o res.sunk, raw, t),
    win |-> WinAfter(st.win, t, res.outcome # "sampled_out", res.outcome = "fault"),
    sunk |-> IF res.queued = << >> THEN st.sunk
             ELSE <<TaskAt(res.queued[1], raw, 0, t, SAMPLE_DEFAULT, st.win, st.recent)>> ]

WarmCall(st, n) ==
  WarmReturned(st, Filler(n), WarmTime(n),
               processError(Filler(n), 0, WarmTime(n), NoConfig, st.windowStart,
                            st.countInWindow, st.recent))

\* the calls lo..hi, one after the other
RECURSIVE WarmCalls(_, _, _)
WarmThen(s1, lo, hi) == IF s1.countInWindow >= 0 THEN WarmCalls(s1, lo, hi) ELSE s1
WarmCalls(st, lo, hi) ==
  IF lo > hi THEN st
  ELSE IF lo = hi THEN WarmCall(st, lo)
  ELSE WarmThen(WarmCalls(st, lo, (lo + hi) \div 2), ((lo + hi) \div 2) + 1, hi)

Loaded ==
  [ windowStart |-> 0, countInWindow |-> 0, recent |-> EmptyMap, dispatched |-> EmptyMap,
    win |-> [start |-> 0, calls |-> 0, faulted |-> FALSE], sunk |-> << >> ]

Warm == WarmCalls(Loaded, 1, SWEEP_SIZE)
WarmEnd == WarmTime(SWEEP_SIZE) + RATE_WINDOW_MS + 1
SweepInstants == {WarmEnd + DEDUP_TTL - 1, WarmEnd + DEDUP_TTL}

\* the state at time t, the microtasks run, that the calls left as st
InitFrom(st, t) ==
  /\ config = NoConfig
  /\ didInit = FALSE
  /\ now = t
  /\ windowStart = st.windowStart
  /\ countInWindow = st.countInWindow
  /\ recent = st.recent
  /\ queue = << >>
  /\ sunk = st.sunk
  /\ dispatched = st.dispatched
  /\ win = st.win
  /\ obs = NoObserver
  /\ last = NoCall
  /\ applied = NotApplied
  /\ installed = FALSE
  /\ window = Browser
  /\ fired = NotFired
  /\ callStack = << >>

InitSweep == InitFrom(Warm, WarmEnd)

NextSweep ==
  \/ \E t \in SweepInstants : Tick(t)
  \/ \E raw \in {PayloadA, PayloadB, Filler(SWEEP_SIZE)} : ProcessError(raw, 0, MaxSweepCalls)
  \/ RunMicrotask(FALSE)

SpecSweep == InitSweep /\ [][NextSweep]_vars

(***************************************************************************)
(* Installation and capture: initWatcher and installGlobalHandlers are     *)
(* called any number of times, the page assigns handlers of its own, and   *)
(* error events and unhandled rejections are delivered to the functions    *)
(* found in the slots of the global object.  A delivery runs to its end    *)
(* before anything else happens.                                           *)
(***************************************************************************)
\* the slots and the payload the installed function builds for each
Slots == {"onerror", "onunhandledrejection"}
PayloadOf(slot) == IF slot = "onerror" THEN PayloadA ELSE PayloadRejection

\* what userConfig may be: nothing given, and every field given
STAGING == <<115, 116, 97, 103, 105, 110, 103>>
UserConfigs ==
  { RateOnly(Undef),
    [environment |-> Str(STAGING), sampleRate |-> Num(500), maxBreadcrumbs |-> Num(5)] }

\* a direct call of the exported installGlobalHandlers
InstallGlobalHandlers ==
  /\ fired.installs < MaxRequests /\ ~fired.delivering
  /\ installed' = installGlobalHandlers(installed, window).installed
  /\ window' = installGlobalHandlers(installed, window).window
  /\ fired' = [fired EXCEPT !.installs = @ + 1]
  /\ UNCHANGED <<config, didInit, now, windowStart, countInWindow, recent, queue, sunk,
                 dispatched, win, obs, last, applied, callStack>>

\* the page assigns a function of its own to a slot
PageSetsHandler(slot) ==
  /\ window.browser /\ ~fired.delivering
  /\ window[slot] # PageHandler
  /\ window' = [window EXCEPT ![slot] = PageHandler]
  /\ UNCHANGED <<config, didInit, now, windowStart, countInWindow, recent, queue, sunk,
                 dispatched, win, obs, last, applied, installed, fired, callStack>>

\* an error or an unhandled rejection occurs: the browser calls the function in
\* the slot, if there is one
ErrorEvent(slot) ==
  /\ window.browser /\ ~fired.delivering
  /\ fired.events < MaxEvents
  /\ fired' = [fired EXCEPT !.events = @ + 1,
                            !.delivering = window[slot].by # "none",
                            !.head = window[slot], !.chain = window[slot],
                            !.raw = PayloadOf(slot), !.calls = 0,
                            !.slot = slot, !.built = TRUE, !.pageCalls = 0,
                            !.prevReturned = "none",
                            !.result = IF window[slot].by = "none" THEN "unhandled"
                                       ELSE "none"]
  /\ UNCHANGED <<config, didInit, now, windowStart, countInWindow, recent, queue, sunk,
                 dispatched, win, obs, last, applied, installed, window, callStack>>

\* the function the installed one calls when its try block is over
ChainedIfBuilt(h, built) == IF built THEN h.prev[1] ELSE NoHandler

\* if (typeof prevOnError === 'function'): the function the installed one
\* calls after its try block, however that block ended
Chained(h, built) == h.prev[1]

\* what the installed function returns: window.onerror returns what the
\* function before it returned, false when that one threw or there is none;
\* window.onunhandledrejection returns nothing
HandlerResult(slot, prevReturned) ==
  IF slot # "onerror" THEN "void"
  ELSE IF prevReturned \in {"none", "threw"} THEN "false"
  ELSE prevReturned

\* the installed function runs: in its try block it builds the payload and
\* calls processError(payload); built tells whether the block gets as far as
\* the call. Then it calls the function it replaced, if that is one, and
\* otherwise returns.
HandlerRuns(random, built) ==
  /\ fired.delivering
  /\ fired.chain.by = "watcher"
  /\ IF built
     THEN Returned(fired.raw, random,
                   processError(fired.raw, random, now, config, windowStart,
                                countInWindow, recent))
     ELSE UNCHANGED <<windowStart, countInWindow, recent, queue, sunk, dispatched, win,
                      obs, last>>
  /\ fired' = [fired EXCEPT !.calls = IF built THEN @ + 1 ELSE @,
                            !.built = built,
                            !.chain = Chained(fired.chain, built),
                            !.delivering = Chained(fired.chain, built).by # "none",
                            !.result = IF Chained(fired.chain, built).by # "none" THEN @
                                       ELSE HandlerResult(fired.slot, "none")]
  /\ UNCHANGED <<config, didInit, now, applied, installed, window, callStack>>

\* a function of the page runs, called by the browser or by the installed
\* function; it returns true or false, or it throws
PageHandlerRuns(returns) ==
  /\ fired.delivering
  /\ fired.chain.by # "watcher"
  /\ fired' = [fired EXCEPT !.chain = NoHandler, !.delivering = FALSE,
                            !.pageCalls = @ + 1,
                            !.prevReturned = IF fired.head.by = "watcher" THEN returns ELSE @,
                            !.result = IF fired.head.by = "watcher"
                                       THEN HandlerResult(fired.slot, returns)
                                       ELSE returns]
  /\ UNCHANGED <<config, didInit, now, windowStart, countInWindow, recent, queue, sunk,
                 dispatched, win, obs, last, applied, installed, window, callStack>>

\* at load there is a window or not
InitInstall ==
  /\ config = NoConfig
  /\ didInit = FALSE
  /\ now = 0
  /\ windowStart = 0
  /\ countInWindow = 0
  /\ recent = EmptyMap
  /\ queue = << >>
  /\ sunk = << >>
  /\ dispatched = EmptyMap
  /\ win = [start |-> 0, calls |-> 0, faulted |-> FALSE]
  /\ obs = NoObserver
  /\ last = NoCall
  /\ applied = NotApplied
  /\ installed = FALSE
  /\ window \in {Browser, NoWindow}
  /\ fired = NotFired
  /\ callStack = << >>

NextInstall ==
  \/ \E userConfig \in UserConfigs : InitWatcherCall(userConfig, MaxRequests)
  \/ InstallGlobalHandlers
  \/ \E slot \in Slots : PageSetsHandler(slot)
  \/ \E slot \in Slots : ErrorEvent(slot)
  \/ \E random \in RandomDraws : HandlerRuns(random, TRUE)
  \/ PageHandlerRuns("false")
  \/ ~fired.delivering /\ Tick(DEDUP_TTL)
  \/ ~fired.delivering /\ RunMicrotask(FALSE)

SpecInstall == InitInstall /\ [][NextInstall]_vars

\* the installed functions at work: the try block may throw before it calls
\* processError, and the function of the page may return either value or throw
NextHandler ==
  \/ InitWatcherCall(RateOnly(Undef), 1)
  \/ \E slot \in Slots : PageSetsHandler(slot)
  \/ \E slot \in Slots : ErrorEvent(slot)
  \/ \E built \in BOOLEAN : HandlerRuns(0, built)
  \/ \E returns \in {"true", "false", "threw"} : PageHandlerRuns(returns)
  \/ ~fired.delivering /\ RunMicrotask(FALSE)

SpecHandler == Init /\ [][NextHandler]_vars

(***************************************************************************)
(* processError statement by statement.  Capture sources and microtasks    *)
(* are started by the event loop; the sink, while it runs, may cause a     *)
(* processError call of its own.  callStack holds the frames, innermost    *)
(* first; a processError frame keeps the state it found when it was        *)
(* called.                                                                 *)
(***************************************************************************)
YieldsBeforeDedup(pc) == pc = "dedup"

\* processError is a plain function, not an async one: no statement of it
\* hands control back to the event loop
Yields(pc) == FALSE

\* the event loop starts a callback when nothing runs
MayStart == IF callStack = << >> THEN TRUE ELSE Yields(Head(callStack).pc)

Snapshot ==
  [ windowStart |-> windowStart, countInWindow |-> countInWindow, recent |-> recent,
    win |-> win, log |-> dispatched ]
NoSnapshot ==
  [ windowStart |-> 0, countInWindow |-> 0, recent |-> EmptyMap,
    win |-> [start |-> 0, calls |-> 0, faulted |-> FALSE], log |-> EmptyMap ]

Frame(fn, pc, raw, random, pre) ==
  [fn |-> fn, pc |-> pc, raw |-> raw, random |-> random, pre |-> pre]

\* a statement that goes on to the statement pc, and one that leaves processError
Goes(pc, ws, cnt, store) ==
  [ pc |-> pc, outcome |-> "none", windowStart |-> ws, countInWindow |-> cnt,
    recent |-> store, queued |-> << >> ]
Leaves(outcome, ws, cnt, store, queued) ==
  [ pc |-> "return", outcome |-> outcome, windowStart |-> ws, countInWindow |-> cnt,
    recent |-> store, queued |-> queued ]

\* the statement the frame f has reached, executed at time t with the
\* configuration c, the window (ws, cnt) and the store
Statement(f, t, c, ws, cnt, store) ==
  CASE f.pc = "config" -> Goes("sample", ws, cnt, store)
    [] f.pc = "sample" ->
         IF shouldSample(getConfig(c), f.random) THEN Goes("rate", ws, cnt, store)
         ELSE Leaves("sampled_out", ws, cnt, store, << >>)
    [] f.pc = "rate" ->
         IF rateLimited(t, ws, cnt).limited
         THEN Leaves("rate_limited", rateLimited(t, ws, cnt).windowStart,
                     rateLimited(t, ws, cnt).countInWindow, store, << >>)
         ELSE Goes("sanitize", rateLimited(t, ws, cnt).windowStart,
                   rateLimited(t, ws, cnt).countInWindow, store)
    [] f.pc = "sanitize" ->
         IF Sanitized(f.raw).ok THEN Goes("fingerprint", ws, cnt, store)
         ELSE Leaves("fault", ws, cnt, store, << >>)
    [] f.pc = "fingerprint" ->
         IF Fingerprinted(Sanitized(f.raw).val).ok THEN Goes("dedup", ws, cnt, store)
         ELSE Leaves("fault", ws, cnt, store, << >>)
    [] f.pc = "dedup" ->
         IF deduped(store, Fingerprinted(Sanitized(f.raw).val).val, DEDUP_TTL, t).dup
         THEN Leaves("duplicate", ws, cnt,
                     deduped(store, Fingerprinted(Sanitized(f.raw).val).val, DEDUP_TTL, t).recent,
                     << >>)
         ELSE Goes("queue", ws, cnt,
                   deduped(store, Fingerprinted(Sanitized(f.raw).val).val, DEDUP_TTL, t).recent)
    [] OTHER ->
         Leaves("dispatched", ws, cnt, store,
                <<[Sanitized(f.raw).val EXCEPT
                     !.fingerprint = Str(Fingerprinted(Sanitized(f.raw).val).val)]>>)

\* a capture source calls processError(raw): the call is on the stack, at
\* its first statement
Enter(raw, random, cap) ==
  /\ MayStart
  /\ countInWindow < cap \/ now - windowStart > RATE_WINDOW_MS
  /\ Len(queue) < MaxQueue
  /\ callStack' = <<Frame("processError", "config", raw, random, Snapshot)>> \o callStack
  /\ UNCHANGED <<config, didInit, now, windowStart, countInWindow, recent, queue, sunk,
                 dispatched, win, obs, last, applied, installed, window, fired>>

\* what the statement st of the frame f leaves
ExecutesWith(f, st) ==
  /\ windowStart' = st.windowStart
  /\ countInWindow' = st.countInWindow
  /\ recent' = st.recent
  /\ queue' = queue \o [i \in 1..Len(st.queued) |->
                          TaskAt(st.queued[i], f.raw, f.random, now, EffectiveRate,
                                 f.pre.win, f.pre.recent)]
  /\ dispatched' = RecordAt(dispatched, st.queued, f.raw, now)
  /\ win' = IF f.pc = "rate" THEN WinAfter(win, now, TRUE, FALSE)
            ELSE IF st.outcome = "fault" THEN [win EXCEPT !.faulted = TRUE]
            ELSE win
  /\ IF st.pc = "return"
     THEN /\ callStack' = Tail(callStack)
          /\ last' = [ called |-> TRUE, raw |-> f.raw, rawAfter |-> f.raw,
                       outcome |-> st.outcome, escaped |-> FALSE,
                       queued |-> st.queued, sunk |-> << >>,
                       rate |-> EffectiveRate,
                       storeEmpty |-> f.pre.recent = EmptyMap,
                       budget |-> \/ f.pre.win.calls < RATE_MAX
                                  \/ now - f.pre.win.start > RATE_WINDOW_MS,
                       elapsed |-> now - f.pre.win.start > RATE_WINDOW_MS,
                       seen |-> SeenAt(f.pre.log, FiveOf(f.raw)),
                       key |-> KeyOf(f.raw), since |-> SinceKey(f.pre.log, KeyOf(f.raw)) ]
     ELSE /\ callStack' = <<[f EXCEPT !.pc = st.pc]>> \o Tail(callStack)
          /\ UNCHANGED last
  /\ UNCHANGED <<config, didInit, now, sunk, obs, applied, installed, window, fired>>

\* the innermost processError call executes its next statement
Executes ==
  /\ callStack # << >>
  /\ Head(callStack).fn = "processError"
  /\ ExecutesWith(Head(callStack),
                  Statement(Head(callStack), now, config, windowStart, countInWindow, recent))

\* the event loop runs the next microtask: the sink is invoked with the
\* oldest queued payload
StartsMicrotask ==
  /\ MayStart
  /\ queue # << >>
  /\ sunk' = <<Head(queue)>>
  /\ queue' = Tail(queue)
  /\ callStack' = <<Frame("microtask", "log", Head(queue).raw, 0, NoSnapshot)>> \o callStack
  /\ UNCHANGED <<config, didInit, now, windowStart, countInWindow, recent, dispatched,
                 win, obs, last, applied, installed, window, fired>>

\* the sink, while it runs, causes a processError call: it reports an error of
\* its own, or it throws and the exception is handed to window.onerror
SinkReenters(raw, random, cap) ==
  /\ callStack # << >>
  /\ Head(callStack).fn = "microtask" /\ Head(callStack).pc = "log"
  /\ countInWindow < cap \/ now - windowStart > RATE_WINDOW_MS
  /\ Len(queue) < MaxQueue
  /\ callStack' = << Frame("processError", "config", raw, random, Snapshot),
                     [Head(callStack) EXCEPT !.pc = "reported"] >> \o Tail(callStack)
  /\ UNCHANGED <<config, didInit, now, windowStart, countInWindow, recent, queue, sunk,
                 dispatched, win, obs, last, applied, installed, window, fired>>

\* the microtask ends
EndsMicrotask ==
  /\ callStack # << >>
  /\ Head(callStack).fn = "microtask"
  /\ callStack' = Tail(callStack)
  /\ UNCHANGED <<config, didInit, now, windowStart, countInWindow, recent, queue, sunk,
                 dispatched, win, obs, last, applied, installed, window, fired>>

\* the window is nearly used up: processError has been called RATE_MAX - 3
\* times at time 0 with a null payload, before any configuration
NullCall(st) ==
  WarmReturned(st, NullPayload, 0,
               processError(NullPayload, 0, 0, NoConfig, st.windowStart, st.countInWindow,
                            st.recent))

RECURSIVE NullCalls(_, _)
NullCalls(st, n) ==
  IF n = 0 \/ st.countInWindow < 0 THEN st ELSE NullCalls(NullCall(st), n - 1)

InitSteps == InitFrom(NullCalls(Loaded, RATE_MAX - 3), 0)

NextSteps ==
  \/ \E userRate \in SampleRates : callStack = << >> /\ InitWatcher(userRate)
  \/ callStack = << >> /\ Tick(DEDUP_TTL)
  \/ \E raw \in {PayloadA, NullPayload}, random \in RandomDraws :
       Enter(raw, random, RATE_MAX + 1)
  \/ Executes
  \/ StartsMicrotask
  \/ \E raw \in {PayloadA, PayloadB}, random \in RandomDraws :
       SinkReenters(raw, random, RATE_MAX + 1)
  \/ EndsMicrotask

SpecSteps == InitSteps /\ [][NextSteps]_vars

\* the window is nearly used up by one error: processError has been called
\* RATE_MAX - 3 times at time 0 with the same payload, before any
\* configuration, and the one microtask has run
RepeatCall(st) ==
  WarmReturned(st, PayloadA, 0,
               processError(PayloadA, 0, 0, NoConfig, st.windowStart, st.countInWindow,
                            st.recent))

RECURSIVE RepeatCalls(_, _)
RepeatCalls(st, n) ==
  IF n = 0 \/ st.countInWindow < 0 THEN st ELSE RepeatCalls(RepeatCall(st), n - 1)

InitBudget == InitFrom(RepeatCalls(Loaded, RATE_MAX - 3), 0)

\* the rest of that window and the next one: the same error, a different one
\* and a null payload
NextBudget ==
  \/ InitWatcher(Num(500))
  \/ \E t \in {DEDUP_TTL - 1, RATE_WINDOW_MS + 1} : Tick(t)
  \/ \E raw \in {PayloadA, PayloadB, NullPayload}, random \in RandomDraws :
       ProcessError(raw, random, RATE_MAX + MaxOver)
  \/ RunMicrotask(FALSE)

SpecBudget == InitBudget /\ [][NextBudget]_vars

(***************************************************************************)
(* The helper functions on their own: the input is drawn when the          *)
(* behaviour starts and the function is applied to it; the pipeline is     *)
(* as loaded and is not called.                                            *)
(***************************************************************************)
AtLoad ==
  /\ config = NoConfig
  /\ didInit = FALSE
  /\ now = 0
  /\ windowStart = 0
  /\ countInWindow = 0
  /\ recent = EmptyMap
  /\ queue = << >>
  /\ sunk = << >>
  /\ dispatched = EmptyMap
  /\ win = [start |-> 0, calls |-> 0, faulted |-> FALSE]
  /\ obs = NoObserver
  /\ last = NoCall
  /\ installed = FALSE
  /\ window = Browser
  /\ fired = NotFired
  /\ callStack = << >>

PipelineIdle ==
  UNCHANGED << config, didInit, now, windowStart, countInWindow, recent, queue, sunk,
               dispatched, win, obs, last, installed, window, fired, callStack >>

\* sanitizeUrl: URLs put together from an origin (none for a relative URL), a
\* path, up to MaxParams query parameters and possibly a fragment, and what
\* else a caller may pass
MaxParams == 2

\* 'Auth', 'id', 'q'; 'abc', 'a b'
NAME_AUTH == <<65, 117, 116, 104>>
NAME_ID == <<105, 100>>
NAME_Q == <<113>>
VALUE_ABC == <<97, 98, 99>>
VALUE_A_B == <<97, 32, 98>>
ParamNames == {SENSITIVE_KEYS[1], NAME_AUTH, NAME_ID, NAME_Q}
ParamValues == {VALUE_ABC, VALUE_A_B}

\* 'https://app.io', 'http://H.io', 'https://' (the path becomes the host) and
\* 'https://a b' (no host can hold a space)
ORIGIN_APP == <<104, 116, 116, 112, 115, 58, 47, 47, 97, 112, 112, 46, 105, 111>>
ORIGIN_UPPER == <<104, 116, 116, 112, 58, 47, 47, 72, 46, 105, 111>>
ORIGIN_EMPTY == <<104, 116, 116, 112, 115, 58, 47, 47>>
ORIGIN_SPACE == <<104, 116, 116, 112, 115, 58, 47, 47, 97, 32, 98>>
\* '/y' and '#token=abc'
PATH_Y == <<47, 121>>
FRAGMENT_TOKEN == <<35, 116, 111, 107, 101, 110, 61, 97, 98, 99>>
\* the example of the documentation of sanitizeUrl
NOT_A_VALID_URL == <<110, 111, 116, 45, 97, 45, 118, 97, 108, 105, 100, 45, 117, 114, 108>>

\* k1=v1&k2=v2...
RECURSIVE RenderPairs(_)
RenderPairs(list) ==
  IF list = << >> THEN << >>
  ELSE list[1].k \o <<61>> \o list[1].v
       \o (IF Len(list) > 1 THEN <<38>> \o RenderPairs(Tail(list)) ELSE << >>)

UrlOf(origin, path, list, frag) ==
  origin \o path \o (IF list = << >> THEN << >> ELSE <<63>> \o RenderPairs(list)) \o frag

UrlInput(url, list, base) == [url |-> url, pairs |-> list, base |-> base]

UrlInputs ==
  { UrlInput(Str(UrlOf(origin, PATH_Y, list, frag)), list, base) :
      origin \in {<< >>, ORIGIN_APP, ORIGIN_UPPER, ORIGIN_EMPTY, ORIGIN_SPACE},
      list \in UNION { [1..n -> [k : ParamNames, v : ParamValues]] : n \in 0..MaxParams },
      frag \in {<< >>, FRAGMENT_TOKEN},
      base \in {LOCALHOST_ORIGIN, ORIGIN_APP} }
  \cup { UrlInput(url, << >>, LOCALHOST_ORIGIN) :
           url \in {Str(NOT_A_VALID_URL), Str(<< >>), Undef, Num(0)} }

InitUrl ==
  /\ AtLoad
  /\ applied \in {[arg |-> a, done |-> FALSE, res |-> Undef] : a \in UrlInputs}

\* sanitizeUrl(url) is called where the origin of the page is base
SanitizeUrl ==
  /\ ~applied.done
  /\ applied' = [applied EXCEPT !.done = TRUE,
                                !.res = sanitizeUrlWith(applied.arg.url, applied.arg.base)]
  /\ PipelineIdle

NextUrl == SanitizeUrl

SpecUrl == InitUrl /\ [][NextUrl]_vars

\* truncate: every text of up to MaxTextLen characters out of 'a', ']' and
\* the ellipsis of the marker with every max up to MaxCap, texts of 'x' around
\* the cap of a message, and values that are no strings
MaxTextLen == 4
MaxCap == 3

Repeat(c, n) == [i \in 1..n |-> c]

TruncateInputs ==
  { [s |-> Str(text), max |-> max] :
      text \in UNION { [1..n -> {97, 93, 8230}] : n \in 0..MaxTextLen }, max \in 0..MaxCap }
  \cup { [s |-> Str(Repeat(120, n)), max |-> MESSAGE_MAX] :
           n \in {MESSAGE_MAX - 1, MESSAGE_MAX, MESSAGE_MAX + 1, 2 * MESSAGE_MAX} }
  \cup { [s |-> x, max |-> MESSAGE_MAX] : x \in {Undef, Num(0)} }

InitTruncate ==
  /\ AtLoad
  /\ applied \in {[arg |-> a, done |-> FALSE, times |-> 0, first |-> Undef, res |-> a.s] :
                    a \in TruncateInputs}

\* truncate(s, max)
Truncate ==
  /\ applied.times = 0
  /\ applied' = [applied EXCEPT !.done = TRUE, !.times = 1,
                                !.first = truncate(applied.arg.s, applied.arg.max),
                                !.res = truncate(applied.arg.s, applied.arg.max)]
  /\ PipelineIdle

\* truncate(r, max) where r is what truncate(s, max) returned
TruncateAgain ==
  /\ applied.times = 1
  /\ applied' = [applied EXCEPT !.times = 2, !.res = truncate(applied.res, applied.arg.max)]
  /\ PipelineIdle

NextTruncate == Truncate \/ TruncateAgain

SpecTruncate == InitTruncate /\ [][NextTruncate]_vars

\* fingerprint: pairs of payloads.  In a pair "space" the second payload is
\* the first with every whitespace character of message and stack replaced by
\* a run of up to MaxGap whitespace characters (none included) and with name
\* and source padded; in a pair "context" it is the first with another url,
\* route or timestamp.
MaxGap == 2

\* 'a.js'
SOURCE_A == <<97, 46, 106, 115>>

Gaps == UNION { [1..n -> {32, 9, 10}] : n \in 0..MaxGap }

RECURSIVE Respace(_, _)
Respace(s, gap) ==
  IF s = << >> THEN << >>
  ELSE (IF IsSpace(Head(s)) THEN gap ELSE <<Head(s)>>) \o Respace(Tail(s), gap)

Pad(s, gap) == gap \o s \o gap

FingerprintBase ==
  Payload(Str(RUNTIME_ERROR), Str(TYPE_ERROR), Str(MSG_A), Str(STACK_A), Str(SOURCE_A),
          Str(URL_A), Str(ROUTE_HOME), Str(STAMP_0))

\* a message of exactly MESSAGE_MAX characters
FingerprintLong == [FingerprintBase EXCEPT !.message = Str(Repeat(120, MESSAGE_MAX))]

\* what follows the first MESSAGE_MAX characters of a message: up to MaxBeyond
\* characters out of 'a' and 'b'
MaxBeyond == 2
Beyond == UNION { [1..n -> {97, 98}] : n \in 0..MaxBeyond }

FingerprintInputs ==
  { [ p |-> FingerprintBase, rel |-> "space",
      q |-> [FingerprintBase EXCEPT !.message = Str(Respace(MSG_A, g)),
                                    !.stack = Str(Respace(STACK_A, h)),
                                    !.name = Str(Pad(TYPE_ERROR, a)),
                                    !.source = Str(Pad(SOURCE_A, b))] ] :
      g \in Gaps, h \in {<<32>>, <<13, 10, 32, 32, 32, 32>>}, a \in {<< >>, <<9>>},
      b \in {<< >>, <<32>>} }
  \cup { [ p |-> FingerprintLong, rel |-> "space",
           q |-> [FingerprintLong EXCEPT !.message = Str(Pad(Repeat(120, MESSAGE_MAX), g))] ] :
           g \in {<< >>, <<32>>} }
  \cup { [ p |-> [FingerprintLong EXCEPT !.message = Str(Repeat(120, MESSAGE_MAX) \o x[1])],
           rel |-> "beyond",
           q |-> [FingerprintLong EXCEPT !.message = Str(Repeat(120, MESSAGE_MAX) \o x[2])] ] :
           x \in {y \in Beyond \X Beyond : y[1] # y[2]} }
  \cup { [ p |-> FingerprintBase, rel |-> "context",
           q |-> [FingerprintBase EXCEPT !.url = u, !.route = r, !.timestamp = Str(t)] ] :
           u \in {Str(URL_A), Undef}, r \in {Str(ROUTE_HOME), Undef}, t \in {STAMP_0, STAMP_1} }

InitFingerprint ==
  /\ AtLoad
  /\ applied \in {[arg |-> a, done |-> FALSE, step |-> 0, fp |-> << >>, key |-> << >>,
                    store |-> EmptyMap, dup |-> FALSE] : a \in FingerprintInputs}

\* fingerprint(raw), and the key of raw in processError at time t on the store:
\* fingerprint(sanitizePayload(raw)), handed to deduped
Fingerprints(raw, t, fp, key) ==
  applied' = [applied EXCEPT !.step = @ + 1, !.done = (@ \/ applied.step = 1),
                             !.fp = Append(@, fp), !.key = Append(@, key),
                             !.store = deduped(@, key, DEDUP_TTL, t).recent,
                             !.dup = deduped(applied.store, key, DEDUP_TTL, t).dup]

\* the first payload of the pair, at time 0
FingerprintFirst ==
  /\ applied.step = 0
  /\ Fingerprints(applied.arg.p, 0, fingerprint(applied.arg.p).val,
                  fingerprint(sanitizePayload(applied.arg.p).val).val)
  /\ PipelineIdle

\* the second payload of the pair, at the last instant before the TTL is over
FingerprintSecond ==
  /\ applied.step = 1
  /\ Fingerprints(applied.arg.q, DEDUP_TTL - 1, fingerprint(applied.arg.q).val,
                  fingerprint(sanitizePayload(applied.arg.q).val).val)
  /\ PipelineIdle

NextFingerprint == FingerprintFirst \/ FingerprintSecond

SpecFingerprint == InitFingerprint /\ [][NextFingerprint]_vars

\* simpleHash: every string of up to MaxHashLen code units out of 'a', '|',
\* e with acute accent, the euro sign and 0xffff; the loop runs one code unit
\* at a time
MaxHashLen == 3

HashInputs == UNION { [1..n -> {97, 124, 233, 8364, 65535}] : n \in 0..MaxHashLen }

InitHash ==
  /\ AtLoad
  /\ applied \in {[arg |-> a, done |-> FALSE, i |-> 0,
                    hash |-> <<FNV_OFFSET_HI, FNV_OFFSET_LO>>, res |-> << >>] :
                    a \in HashInputs}

\* one turn of the for loop
HashChar ==
  /\ ~applied.done /\ applied.i < Len(applied.arg)
  /\ applied' = [applied EXCEPT !.i = @ + 1,
                                !.hash = LoopBody(@, applied.arg[applied.i + 1])]
  /\ PipelineIdle

\* return (hash >>> 0).toString(16)
HashReturn ==
  /\ ~applied.done /\ applied.i = Len(applied.arg)
  /\ applied' = [applied EXCEPT !.done = TRUE, !.res = ToHex(ToUint32(applied.hash))]
  /\ PipelineIdle

NextHash == HashChar \/ HashReturn

SpecHash == InitHash /\ [][NextHash]_vars

\* The sink fails: console.log throws in every microtask, the exception leaves
\* the callback uncaught and the browser reports it to window.onerror, whose
\* installed function passes it to processError. The sink may be slow: time
\* passes, DEDUP_TTL ms at a time and MaxSlow times from the origin of time,
\* before it throws.
MaxSlow == 4
MaxTime == MaxSlow * DEDUP_TTL

\* the microtask runs, console.log throws, and the browser starts to deliver
\* the error event for the exception
SinkThrows(exception) ==
  /\ queue # << >> /\ ~fired.delivering
  /\ sunk' = <<[Head(queue) EXCEPT !.uncaught = TRUE]>>
  /\ queue' = Tail(queue)
  /\ fired' = [fired EXCEPT !.delivering = window.onerror.by # "none",
                            !.head = window.onerror, !.chain = window.onerror,
                            !.raw = exception, !.calls = 0,
                            !.slot = "onerror", !.built = TRUE, !.pageCalls = 0,
                            !.prevReturned = "none",
                            !.result = IF window.onerror.by = "none" THEN "unhandled"
                                       ELSE "none"]
  /\ UNCHANGED <<config, didInit, now, windowStart, countInWindow, recent, dispatched, win,
                 obs, last, applied, installed, window, callStack>>

\* what a call made by the installed function leaves when it returns res
Reported(raw, res) ==
  /\ windowStart' = res.windowStart
  /\ countInWindow' = res.countInWindow
  /\ recent' = res.recent
  /\ queue' = queue \o [i \in 1..Len(res.queued) |->
                          TaskAt(res.queued[i], raw, 0, now, EffectiveRate, win, recent)]
  /\ win' = WinAfter(win, now, res.outcome # "sampled_out", res.outcome = "fault")
  /\ last' = [NoCall EXCEPT !.called = TRUE, !.raw = raw, !.rawAfter = res.rawAfter,
                            !.outcome = res.outcome, !.escaped = res.escaped,
                            !.queued = res.queued, !.sunk = res.sunk]

\* the installed window.onerror runs on the event being delivered: it builds
\* the payload and calls processError(payload); no function was there before it
HandlerReports ==
  /\ fired.delivering /\ fired.chain.by = "watcher"
  /\ Reported(fired.raw, processError(fired.raw, 0, now, config, windowStart,
                                      countInWindow, recent))
  /\ fired' = [fired EXCEPT !.calls = @ + 1,
                            !.chain = Chained(fired.chain, TRUE),
                            !.delivering = Chained(fired.chain, TRUE).by # "none",
                            !.result = HandlerResult(fired.slot, "none")]
  /\ UNCHANGED <<config, didInit, now, sunk, dispatched, obs, applied, installed, window,
                 callStack>>

\* the sink takes DEDUP_TTL ms
SinkIsSlow ==
  /\ queue # << >> /\ ~fired.delivering
  /\ now + DEDUP_TTL <= MaxTime
  /\ Tick(now + DEDUP_TTL)

\* The program compares times with one another only (now - windowStart,
\* exp <= now, expiry > now), so that a state and the same state with every
\* time d ms less behave alike: the origin of time is moved by d. An expiry
\* stays above 0, which the program takes for no expiry.
Rebase(d) ==
  /\ d <= windowStart /\ d <= win.start
  /\ \A k \in DOMAIN recent : d < recent[k]
  /\ \A i \in 1..Len(queue) : d <= queue[i].at
  /\ \A i \in 1..Len(sunk) : d <= sunk[i].at
  /\ now' = now - d
  /\ windowStart' = windowStart - d
  /\ win' = [win EXCEPT !.start = @ - d]
  /\ recent' = [k \in DOMAIN recent |-> recent[k] - d]
  /\ queue' = [i \in 1..Len(queue) |-> [queue[i] EXCEPT !.at = @ - d]]
  /\ sunk' = [i \in 1..Len(sunk) |-> [sunk[i] EXCEPT !.at = @ - d]]
  /\ UNCHANGED <<config, didInit, countInWindow, dispatched, obs, last, applied, installed,
                 window, fired, callStack>>

\* an error of the page, then the failures of the sink
NextFeedback ==
  \/ InitWatcherCall(RateOnly(Undef), 1)
  \/ queue = << >> /\ ErrorEvent("onerror")
  \/ HandlerReports
  \/ \E exception \in {PayloadA, PayloadB} : SinkThrows(exception)
  \/ SinkIsSlow
  \/ Rebase(2 * DEDUP_TTL)

\* a queued microtask is run, and an event being delivered reaches the
\* installed function
SpecFeedback ==
  /\ Init /\ [][NextFeedback]_vars
  /\ WF_vars(\E exception \in {PayloadA, PayloadB} : SinkThrows(exception))
  /\ WF_vars(HandlerReports)

\* deduped on its own, next to the deduplicator that never purges: both have
\* been called with SWEEP_SIZE - 1 different keys, half of them at time 0 and
\* the others at time 1; then with two new keys and two of the old ones, at
\* most MaxDedupCalls times, while the clock moves on
MaxDedupCalls == 4

\* 'k' followed by a number, 'A' and 'B'
FillerKey(n) == <<107>> \o Decimal(n)
KEY_A == <<65>>
KEY_B == <<66>>
DedupKeys == {KEY_A, KEY_B, FillerKey(1), FillerKey(SWEEP_SIZE - 1)}
DedupInstants == {DEDUP_TTL - 1, DEDUP_TTL, DEDUP_TTL + 1}

\* both deduplicators called with key at time t
DedupCalled(st, key, t) ==
  [ done |-> TRUE, calls |-> st.calls + 1, key |-> key,
    dup |-> deduped(st.recent, key, DEDUP_TTL, t).dup,
    recent |-> deduped(st.recent, key, DEDUP_TTL, t).recent,
    dupReference |-> dedupedReference(st.reference, key, DEDUP_TTL, t).dup,
    reference |-> dedupedReference(st.reference, key, DEDUP_TTL, t).recent ]

NotDeduped ==
  [ done |-> FALSE, calls |-> 0, key |-> << >>, dup |-> FALSE, recent |-> EmptyMap,
    dupReference |-> FALSE, reference |-> EmptyMap ]

\* the calls with the keys lo..hi, one after the other
RECURSIVE DedupFill(_, _, _)
DedupThen(s1, lo, hi) == IF s1.calls >= 0 THEN DedupFill(s1, lo, hi) ELSE s1
DedupFill(st, lo, hi) ==
  IF lo > hi THEN st
  ELSE IF lo = hi
       THEN DedupCalled(st, FillerKey(lo), IF 2 * lo < SWEEP_SIZE THEN 0 ELSE 1)
       ELSE DedupThen(DedupFill(st, lo, (lo + hi) \div 2), ((lo + hi) \div 2) + 1, hi)

DedupFilled == DedupFill(NotDeduped, 1, SWEEP_SIZE - 1)

InitDedup ==
  /\ config = NoConfig
  /\ didInit = FALSE
  /\ now = 1
  /\ windowStart = 0
  /\ countInWindow = 0
  /\ recent = DedupFilled.recent
  /\ queue = << >>
  /\ sunk = << >>
  /\ dispatched = EmptyMap
  /\ win = [start |-> 0, calls |-> 0, faulted |-> FALSE]
  /\ obs = NoObserver
  /\ last = NoCall
  /\ applied = [DedupFilled EXCEPT !.done = FALSE, !.calls = 0, !.recent = EmptyMap]
  /\ installed = FALSE
  /\ window = Browser
  /\ fired = NotFired
  /\ callStack = << >>

\* deduped(key)
Deduped(key) ==
  /\ applied.calls < MaxDedupCalls
  /\ recent' = deduped(recent, key, DEDUP_TTL, now).recent
  /\ applied' = [DedupCalled([applied EXCEPT !.recent = recent], key, now)
                   EXCEPT !.recent = EmptyMap]
  /\ UNCHANGED <<config, didInit, now, windowStart, countInWindow, queue, sunk, dispatched,
                 win, obs, last, installed, window, fired, callStack>>

NextDedup ==
  \/ \E key \in DedupKeys : Deduped(key)
  \/ \E t \in DedupInstants : Tick(t)

SpecDedup == InitDedup /\ [][NextDedup]_vars

(***************************************************************************)
(* Properties                                                              *)
(***************************************************************************)
\* the payload the pipeline is to hand over for raw
Expected(raw) ==
  [Sanitized(raw).val EXCEPT !.fingerprint = Str(Fingerprinted(Sanitized(raw).val).val)]

\* a payload of type ErrorPayload: an object whose text fields are strings or absent
WellTyped(p) ==
  /\ p.isObj
  /\ \A x \in {p.type, p.name, p.message, p.stack, p.source, p.url} : x.t \in {"str", "undef"}

\* C1: no processError call lets an exception out to its caller, whatever the
\* payload (null and ill-typed ones included) and the state it finds
C1_NeverThrows == last.escaped = FALSE

C1_Witness ==
  /\ last.called /\ last.outcome = "fault" /\ ~last.raw.isObj
  /\ config.set /\ countInWindow > 1 /\ recent # EmptyMap

\* C2: every payload queued for the sink or handed to it comes from a call that
\* passed the sampler, the limiter and the deduplicator, and is the sanitized
\* copy of that call's payload with the fingerprint of the sanitized copy
FullyProcessed(task) ==
  /\ task.sampled /\ ~task.limited /\ ~task.dup
  /\ Sanitized(task.raw).ok
  /\ Fingerprinted(Sanitized(task.raw).val).ok
  /\ task.payload = Expected(task.raw)
  /\ task.payload.fingerprint.t = "str"

C2_OnlyFullyProcessed ==
  /\ \A i \in 1..Len(queue) : FullyProcessed(queue[i])
  /\ \A i \in 1..Len(sunk) : FullyProcessed(sunk[i])

C2_Witness ==
  /\ sunk # << >> /\ sunk[1].payload.url # sunk[1].raw.url
  /\ win.calls > RATE_MAX /\ config.set

\* C3: a call with a well-typed payload that finds sampleRate 1, an empty store
\* and budget left dispatches exactly one payload, with a fingerprint; a call
\* with the five fields of a payload dispatched less than DEDUP_TTL ms earlier
\* dispatches nothing
C3_EndToEnd ==
  /\ (last.called /\ last.rate = SAMPLE_DEFAULT /\ last.storeEmpty /\ last.budget
        /\ WellTyped(last.raw))
       => /\ Len(last.queued) + Len(last.sunk) = 1
          /\ \A i \in 1..Len(last.queued) : last.queued[i].fingerprint.t = "str"
          /\ \A i \in 1..Len(last.sunk) : last.sunk[i].fingerprint.t = "str"
  /\ (last.called /\ \E t0 \in last.seen : now - t0 < DEDUP_TTL)
       => last.queued = << >> /\ last.sunk = << >>

C3_Witness ==
  /\ last.called /\ last.raw = PayloadA2 /\ last.outcome = "duplicate"
  /\ last.rate = SAMPLE_DEFAULT /\ now = DEDUP_TTL - 1 /\ last.seen = {0}
  /\ \E f \in DOMAIN dispatched : Len(dispatched[f]) = 1 /\ dispatched[f][1].five = FiveOf(PayloadA)

\* C4: two dispatches of one fingerprint come from calls at least DEDUP_TTL ms
\* apart, purges of the store in between included
C4_RepeatsApart ==
  \A f \in DOMAIN dispatched :
    \A i, j \in 1..Len(dispatched[f]) :
      i < j => dispatched[f][j].at - dispatched[f][i].at >= DEDUP_TTL

C4_Witness ==
  /\ MapSize(dispatched) > SWEEP_SIZE /\ MapSize(recent) < SWEEP_SIZE
  /\ MapHas(dispatched, KeyOf(PayloadA)[1]) /\ MapHas(dispatched, KeyOf(PayloadB)[1])
  /\ Len(dispatched[KeyOf(PayloadA)[1]]) = 2
  /\ dispatched[KeyOf(PayloadA)[1]][1].at = WarmEnd
  /\ dispatched[KeyOf(PayloadA)[1]][2].at = WarmEnd + DEDUP_TTL
  /\ dispatched[KeyOf(PayloadB)[1]][1].at = WarmEnd + DEDUP_TTL - 1

\* C5: a call that reaches the deduplicator is a duplicate exactly when its
\* fingerprint was last let through less than DEDUP_TTL ms ago; otherwise it is
\* let through and the expiry of the fingerprint becomes now + DEDUP_TTL
C5_DedupTtl ==
  (last.called /\ last.outcome \in {"duplicate", "dispatched"})
    => /\ last.key # << >>
       /\ IF last.since # << >> /\ now < last.since[1] + DEDUP_TTL
          THEN /\ last.outcome = "duplicate"
               /\ recent[last.key[1].v] = last.since[1] + DEDUP_TTL
          ELSE /\ last.outcome = "dispatched"
               /\ recent[last.key[1].v] = now + DEDUP_TTL

C5_Witness ==
  /\ last.called /\ last.outcome = "dispatched"
  /\ last.since # << >> /\ now = last.since[1] + DEDUP_TTL

\* C6: of the limiter calls of one window the first RATE_MAX return false and
\* the next returns true; the first call after the window has elapsed returns
\* false
C6_RateBoundary ==
  (last.called /\ last.outcome # "sampled_out")
    => /\ win.calls <= RATE_MAX => last.outcome # "rate_limited"
       /\ win.calls = RATE_MAX + 1 => last.outcome = "rate_limited"
       /\ last.elapsed => (last.outcome # "rate_limited" /\ win.calls = 1)

C6_Witness ==
  /\ last.called /\ last.outcome = "rate_limited" /\ win.calls = RATE_MAX + 1
  /\ obs.on /\ obs.count = RATE_MAX

\* C7: in every interval of RATE_WINDOW_MS ms the limiter returns false at most
\* RATE_MAX times
C7_SlidingWindow == obs.count <= RATE_MAX

\* C8: processError returns without having invoked the sink; the payload it
\* admits is handed to the sink by a later microtask
C8_NeverSynchronous ==
  /\ last.sunk = << >>
  /\ (last.called /\ last.outcome = "dispatched") => Len(last.queued) = 1

C8_Witness ==
  /\ last.called /\ last.outcome = "dispatched"
  /\ sunk = << >> /\ Len(queue) = 1 /\ queue[1].payload = last.queued[1]

\* C9: after a processError call the caller's object is what it was, without a
\* fingerprint, whether the payload was dispatched, dropped or faulted
C9_RawUntouched == last.called => (last.rawAfter = last.raw /\ last.rawAfter.fingerprint = Undef)

C9_Witness ==
  /\ last.called /\ last.outcome = "dispatched" /\ last.raw = PayloadA
  /\ last.queued[1].url # last.raw.url /\ last.queued[1].fingerprint # Undef

\* C10: a call rejected by the sampler leaves windowStart, the count of the
\* window and the dedup store as they were
C10_SampledOutFrame ==
  [][last'.outcome = "sampled_out" => UNCHANGED <<windowStart, countInWindow, recent>>]_vars

C10_Witness ==
  /\ last.called /\ last.outcome = "sampled_out"
  /\ countInWindow > 1 /\ recent # EmptyMap

\* C11: a call in which sanitizePayload or fingerprint throws lets nothing out
\* to its caller, queues and sinks nothing and leaves the dedup store as it
\* was; a later call of the same window with a well-typed payload that passes
\* the sampler, has budget left and is no duplicate is dispatched.  (A step
\* that changes win is a call that went past the sampler.)
C11_FaultIsolation ==
  [][ win' # win =>
        /\ last'.outcome = "fault"
             => /\ ~last'.escaped /\ last'.queued = << >> /\ last'.sunk = << >>
                /\ UNCHANGED <<recent, queue, sunk, dispatched>>
        /\ ( /\ win.faulted /\ WellTyped(last'.raw) /\ last'.budget
             /\ (last'.since = << >> \/ now >= last'.since[1] + DEDUP_TTL) )
             => /\ last'.outcome = "dispatched"
                /\ queue' = Append(queue, queue'[Len(queue')])
                /\ queue'[Len(queue')].payload = Expected(last'.raw) ]_vars

C11_Witness ==
  /\ last.called /\ last.outcome = "dispatched" /\ last.raw = PayloadA
  /\ win.faulted /\ win.calls = 2 /\ last.storeEmpty
  /\ Len(queue) = 1 /\ queue[1].payload = Expected(PayloadA)

\* C12: an exception thrown by the sink in the deferred dispatch is caught by
\* the pipeline: no sink invocation ends with an exception leaving the
\* microtask uncaught
C12_SinkFaultIsolated == \A i \in 1..Len(sunk) : ~sunk[i].uncaught

\* the query parameters of the URL text, read as the model's URL parser reads
\* them
PairsOf(text, base) == ParseQuery(ParseUrl(text, base).query)
NonSensitive(list) == SelectSeq(list, LAMBDA e : ~isSensitive(e.k))
SensitiveNames(list) == {list[i].k : i \in {j \in 1..Len(list) : isSensitive(list[j].k)}}

\* C13: when the URL parses, every query parameter of the result with a
\* sensitive name has the value REDACTED, every sensitive name of the input is
\* still there, and the other parameters are those of the input: same names,
\* same values, same order
C13_UrlRedaction ==
  (applied.done /\ IsStr(applied.arg.url) /\ applied.arg.url.v # << >>
     /\ ParseUrl(applied.arg.url.v, applied.arg.base).ok)
    => /\ IsStr(applied.res)
       /\ ParseUrl(applied.res.v, applied.arg.base).ok
       /\ \A i \in 1..Len(PairsOf(applied.res.v, applied.arg.base)) :
            isSensitive(PairsOf(applied.res.v, applied.arg.base)[i].k)
              => PairsOf(applied.res.v, applied.arg.base)[i].v = REDACTED
       /\ SensitiveNames(PairsOf(applied.res.v, applied.arg.base))
            = SensitiveNames(applied.arg.pairs)
       /\ NonSensitive(PairsOf(applied.res.v, applied.arg.base))
            = NonSensitive(applied.arg.pairs)

\* '...?token=abc&token=a b' on an absolute URL becomes '...?token=REDACTED'
C13_Witness ==
  /\ applied.done
  /\ applied.arg.pairs = << [k |-> SENSITIVE_KEYS[1], v |-> VALUE_ABC],
                            [k |-> SENSITIVE_KEYS[1], v |-> VALUE_A_B] >>
  /\ applied.arg.url.v = ORIGIN_APP \o PATH_Y \o <<63>> \o RenderPairs(applied.arg.pairs)
  /\ applied.res = Str(ORIGIN_APP \o PATH_Y \o <<63>> \o SENSITIVE_KEYS[1] \o <<61>> \o REDACTED)

\* C14: a non-empty string that is no valid URL, such as 'not-a-valid-url' or
\* one the URL constructor rejects, is returned by sanitizeUrl as it is
C14_MalformedUnchanged ==
  (applied.done /\ IsStr(applied.arg.url) /\ applied.arg.url.v # << >>
     /\ (applied.arg.url.v = NOT_A_VALID_URL
           \/ ~ParseUrl(applied.arg.url.v, applied.arg.base).ok))
    => applied.res = applied.arg.url

\* C15: truncate(s, max) is s when s has at most max characters, and the
\* first max characters of s followed by the marker when it has more;
\* truncating the result again with the same max gives the same result
C15_TruncateBoundary ==
  (applied.done /\ IsStr(applied.arg.s))
    => /\ Len(applied.arg.s.v) <= applied.arg.max => applied.first = applied.arg.s
       /\ Len(applied.arg.s.v) > applied.arg.max
            => applied.first
                 = Str(SubSeq(applied.arg.s.v, 1, applied.arg.max) \o TRUNCATION_MARKER)
       /\ applied.times = 2 => applied.res = applied.first

\* a text of MESSAGE_MAX + 1 characters, truncated twice
C15_Witness ==
  /\ applied.done /\ applied.times = 2
  /\ applied.arg.max = MESSAGE_MAX /\ Len(applied.arg.s.v) = MESSAGE_MAX + 1
  /\ applied.res = Str(Repeat(120, MESSAGE_MAX) \o TRUNCATION_MARKER)

\* C16: what truncate(s, max) returns has at most max characters
C16_AtMostMax ==
  (applied.done /\ IsStr(applied.first)) => Len(applied.first.v) <= applied.arg.max

\* C17: two payloads that differ in whitespace only (inside message and stack,
\* around name and source) have the same fingerprint, and the second, coming
\* within the TTL, is dropped as a duplicate of the first
C17_WhitespaceInsensitive ==
  (applied.done /\ applied.arg.rel = "space")
    => /\ applied.fp[1] = applied.fp[2]
       /\ applied.key[1] = applied.key[2]
       /\ applied.dup

\* C18: two payloads with the same type, name, message, stack and source have
\* the same fingerprint and the same key, whatever their url, route and
\* timestamp
C18_FiveFieldsOnly ==
  (applied.done /\ FiveOf(applied.arg.p) = FiveOf(applied.arg.q))
    => /\ applied.fp[1] = applied.fp[2]
       /\ applied.key[1] = applied.key[2]
       /\ applied.fp[1] = applied.key[1]

C18_Witness ==
  /\ applied.done /\ applied.arg.rel = "context"
  /\ applied.arg.q.url = Undef /\ applied.arg.q.route = Undef
  /\ applied.arg.q.timestamp = Str(STAMP_1)
  /\ applied.arg.p.url = Str(URL_A) /\ applied.fp[1] = applied.fp[2] /\ applied.dup

\* C19 as stated: the string returned by simpleHash has 8 hexadecimal digits
\* whatever the input
C19_FixedWidth == applied.done => Len(applied.res) = 8

\* C19: the string returned by simpleHash is the unsigned 32-bit value in
\* lowercase hexadecimal digits without leading zeros: 1 to 8 digits, 8 of
\* them exactly when the value is 0x10000000 or more
C19_HexNoPadding ==
  applied.done
    => /\ Len(applied.res) \in 1..8
       /\ \A k \in 1..Len(applied.res) :
            applied.res[k] \in (48..57) \cup (97..102)
       /\ Len(applied.res) > 1 => applied.res[1] # 48
       /\ Len(applied.res) = 8 <=> ToUint32(applied.hash)[1] >= W16 \div 16

C19_Witness ==
  /\ applied.done /\ applied.arg # << >>
  /\ ToUint32(applied.hash)[1] < W16 \div 16 /\ Len(applied.res) < 8

\* C20: after i code units the variable hash, read as an unsigned 32-bit
\* number, is the FNV-1a accumulator h of the first i code units, h starting
\* at 0x811c9dc5 and becoming ((h XOR c) * 0x01000193) mod 2^32 for each code
\* unit c; the string returned is the hexadecimal form of the last h, which is
\* 811c9dc5 for the empty string and e40c292c for 'a'
C20_IsFnv1a ==
  /\ ToUint32(applied.hash)
       = HashFold(<<FNV_OFFSET_HI, FNV_OFFSET_LO>>, applied.arg, 1, applied.i)
  /\ applied.done
       => /\ applied.res = simpleHash(applied.arg)
          /\ applied.arg = << >> => applied.res = <<56, 49, 49, 99, 57, 100, 99, 53>>
          /\ applied.arg = <<97>> => applied.res = <<101, 52, 48, 99, 50, 57, 50, 99>>

\* the variable is negative where the unsigned accumulator is 2^31 or more
C20_Witness ==
  /\ applied.done /\ Len(applied.arg) = MaxHashLen
  /\ applied.hash[1] < 0 /\ applied.hash # ToUint32(applied.hash)
  /\ \E k \in 1..Len(applied.arg) : applied.arg[k] > 255

\* C21: a call made while no configuration is set reads the sample rate 1,
\* is never rejected by the sampler and lets nothing out; with a well-typed
\* payload its outcome is that of the limiter and the deduplicator alone
C21_UnsetConfigSamplesAll ==
  (last.called /\ ~config.set)
    => /\ last.rate = SAMPLE_DEFAULT
       /\ last.outcome # "sampled_out"
       /\ ~last.escaped
       /\ WellTyped(last.raw)
            => last.outcome =
                 (IF ~last.budget THEN "rate_limited"
                  ELSE IF last.since # << >> /\ now < last.since[1] + DEDUP_TTL
                       THEN "duplicate" ELSE "dispatched")

C21_Witness ==
  /\ last.called /\ ~config.set /\ ~didInit
  /\ last.outcome = "rate_limited" /\ last.raw = PayloadA /\ win.calls = RATE_MAX + 1

\* C22: a call of installGlobalHandlers made when an earlier call has set the
\* latch leaves window.onerror and window.onunhandledrejection as they are, and
\* an event delivered to the installed function causes exactly one
\* processError call, however many times installation was requested
C22_InstallOnce ==
  [][/\ (installed /\ fired'.installs > fired.installs) => window' = window
     /\ (fired'.events > 0 /\ ~fired'.delivering /\ fired'.head.by = "watcher")
          => fired'.calls = 1]_vars

C22_Witness ==
  /\ fired.installs = MaxRequests /\ fired.inits > 1
  /\ fired.events = MaxEvents /\ ~fired.delivering
  /\ fired.head = WatcherHandler(PageHandler) /\ fired.calls = 1
  /\ last.called /\ last.raw = PayloadRejection

\* C23: a call of initWatcher made when didInit is set leaves the stored
\* configuration, the latch and both handlers as they are, whatever the user
\* configuration it is given
C23_InitOnce ==
  [][(didInit /\ fired'.inits > fired.inits)
       => /\ config' = config
          /\ installed' = installed
          /\ window' = window]_vars

C23_Witness ==
  /\ fired.inits = MaxRequests
  /\ config = MergeConfig(RateOnly(Undef), Browser)
  /\ window.onerror = WatcherHandler(NoHandler)
  /\ fired.installs = 1

\* the fields of a payload the pipeline does not own
Kept(p) == <<p.isObj, p.type, p.name, p.route, p.timestamp>>

\* C24: every payload queued for the sink or handed to it has the timestamp of
\* the raw payload of its call and equals it on every field other than url,
\* message, stack, source and fingerprint
C24_FieldsPreserved ==
  /\ \A i \in 1..Len(queue) :
        /\ queue[i].payload.timestamp = queue[i].raw.timestamp
        /\ Kept(queue[i].payload) = Kept(queue[i].raw)
  /\ \A i \in 1..Len(sunk) :
        /\ sunk[i].payload.timestamp = sunk[i].raw.timestamp
        /\ Kept(sunk[i].payload) = Kept(sunk[i].raw)

C24_Witness ==
  /\ sunk # << >> /\ sunk[1].raw = PayloadA /\ sunk[1].payload.timestamp = Str(STAMP_0)
  /\ sunk[1].payload.url # PayloadA.url /\ sunk[1].payload.fingerprint.t = "str"
  /\ queue # << >> /\ queue[1].raw = PayloadA2 /\ queue[1].payload.timestamp = Str(STAMP_1)

\* a step that is a processError call: it leaves a new record of the call or
\* counts in the window
CallStep == last'.called /\ (last' # last \/ win' # win)

\* C25: a call adds at most one microtask to the queue, namely its own payload
\* and only when no gate dropped it and no stage failed; any other step either
\* leaves queue and sink alone or hands the oldest queued payload to the sink
\* and removes it from the queue, whether or not the sink throws; so every call
\* causes at most one sink invocation and what was dropped or lost never
\* reaches the sink later
C25_NoRetryNoBuffer ==
  [][/\ CallStep
          => /\ sunk' = sunk
             /\ IF last'.outcome = "dispatched"
                THEN /\ Len(queue') = Len(queue) + 1
                     /\ SubSeq(queue', 1, Len(queue)) = queue
                     /\ queue'[Len(queue')].raw = last'.raw
                     /\ queue'[Len(queue')].at = now
                ELSE queue' = queue
     /\ ~CallStep
          => \/ queue' = queue /\ sunk' = sunk
             \/ /\ queue # << >> /\ queue' = Tail(queue)
                /\ Len(sunk') = 1 /\ sunk'[1].payload = Head(queue).payload
                /\ sunk'[1].at = Head(queue).at]_vars

C25_Witness ==
  /\ now = DEDUP_TTL /\ queue = << >>
  /\ sunk # << >> /\ sunk[1].uncaught /\ sunk[1].at = 0
  /\ win.calls = RATE_MAX + MaxOver /\ win.faulted
  /\ \A f \in DOMAIN dispatched : Len(dispatched[f]) = 1

\* the processError calls on the stack
Running == {i \in 1..Len(callStack) : callStack[i].fn = "processError"}

\* C26: at most one processError call is on the stack at any time, also when
\* the sink calls back into processError, and a call that returns leaves the
\* window, the store and the queue as one uninterrupted processError would
\* have left the state it found when it was called, with the same verdict
C26_NeverOverlap ==
  [][/\ Cardinality({i \in 1..Len(callStack') : callStack'[i].fn = "processError"}) <= 1
     /\ (/\ callStack # << >> /\ Head(callStack).fn = "processError"
         /\ callStack' = Tail(callStack))
          => /\ windowStart' = processError(Head(callStack).raw, Head(callStack).random, now,
                                            config, Head(callStack).pre.windowStart,
                                            Head(callStack).pre.countInWindow,
                                            Head(callStack).pre.recent).windowStart
             /\ countInWindow' = processError(Head(callStack).raw, Head(callStack).random, now,
                                              config, Head(callStack).pre.windowStart,
                                              Head(callStack).pre.countInWindow,
                                              Head(callStack).pre.recent).countInWindow
             /\ recent' = processError(Head(callStack).raw, Head(callStack).random, now,
                                       config, Head(callStack).pre.windowStart,
                                       Head(callStack).pre.countInWindow,
                                       Head(callStack).pre.recent).recent
             /\ last'.outcome = processError(Head(callStack).raw, Head(callStack).random, now,
                                             config, Head(callStack).pre.windowStart,
                                             Head(callStack).pre.countInWindow,
                                             Head(callStack).pre.recent).outcome
             /\ [i \in 1..Len(last'.queued) |-> last'.queued[i]]
                  = processError(Head(callStack).raw, Head(callStack).random, now,
                                 config, Head(callStack).pre.windowStart,
                                 Head(callStack).pre.countInWindow,
                                 Head(callStack).pre.recent).queued]_vars

C26_Witness ==
  /\ Len(callStack) = 1 /\ callStack[1].fn = "microtask" /\ callStack[1].pc = "reported"
  /\ last.called /\ last.raw = PayloadA /\ last.outcome = "duplicate"
  /\ sunk # << >> /\ sunk[1].raw = PayloadA /\ sunk[1].at = now

\* C27: a call found a duplicate leaves the stored expiry of its fingerprint as
\* it was, so that the expiry of every fingerprint is DEDUP_TTL ms after the
\* call that was last let through with it, and a later call is a duplicate
\* exactly as long as that expiry lies ahead, whatever number of duplicates
\* came in between
C27_NoRefresh ==
  [][CallStep
       => /\ last'.outcome = "duplicate"
               => /\ MapHas(recent, last'.key[1].v)
                  /\ recent'[last'.key[1].v] = recent[last'.key[1].v]
          /\ \A f \in DOMAIN dispatched' :
               /\ MapHas(recent', f.v)
               /\ recent'[f.v] = dispatched'[f][Len(dispatched'[f])].at + DEDUP_TTL
          /\ (last'.outcome \in {"duplicate", "dispatched"} /\ last'.since # << >>)
               => (last'.outcome = "duplicate" <=> now < last'.since[1] + DEDUP_TTL)]_vars

C27_Witness ==
  /\ last.called /\ last.outcome = "dispatched" /\ last.raw = PayloadA
  /\ now = DEDUP_TTL /\ last.since = <<0>>
  /\ win.calls = RATE_MAX /\ ~win.faulted

\* C28: a call that reaches the deduplicator when the store holds more than
\* SWEEP_SIZE entries removes every entry whose expiry is not after now and
\* keeps every entry whose expiry is after now; when the store holds
\* SWEEP_SIZE entries or fewer it removes none; the only entry written is
\* that of the call's own fingerprint, and a call that does not reach the
\* deduplicator leaves the store alone
C28_SweepCorrect ==
  [][CallStep
       => IF last'.outcome \in {"duplicate", "dispatched"}
          THEN /\ \A x \in DOMAIN recent :
                    IF MapSize(recent) > SWEEP_SIZE /\ recent[x] <= now
                    THEN x = last'.key[1].v \/ ~MapHas(recent', x)
                    ELSE /\ MapHas(recent', x)
                         /\ x # last'.key[1].v => recent'[x] = recent[x]
               /\ DOMAIN recent' \subseteq DOMAIN recent \cup {last'.key[1].v}
          ELSE recent' = recent]_vars

C28_Witness ==
  /\ last.called /\ last.outcome = "dispatched" /\ last.raw = PayloadB
  /\ MapSize(recent) = 2 /\ MapSize(dispatched) = SWEEP_SIZE + 2
  /\ MapHas(recent, KeyOf(PayloadA)[1].v) /\ recent[KeyOf(PayloadA)[1].v] > now

\* C29: every call that reaches the limiter is counted, the calls answered
\* true included: countInWindow is the number of limiter calls made since the
\* window last elapsed, and once a call of the window has been answered true
\* every later call of that window is answered true
C29_CountsEveryCall ==
  [][(CallStep /\ last'.outcome # "sampled_out")
       => /\ countInWindow' = win'.calls
          /\ windowStart' = win'.start
          /\ ~(now - windowStart > RATE_WINDOW_MS) => countInWindow' = countInWindow + 1
          /\ (/\ last.outcome = "rate_limited" \/ win.calls > RATE_MAX
              /\ ~(now - windowStart > RATE_WINDOW_MS))
               => last'.outcome = "rate_limited"]_vars

C29_Witness ==
  /\ last.called /\ last.outcome = "rate_limited" /\ now = 0
  /\ countInWindow = RATE_MAX + MaxOver /\ win.calls = RATE_MAX + MaxOver

\* C30: a call resets the window exactly when now - windowStart exceeds
\* RATE_WINDOW_MS: a call at windowStart + RATE_WINDOW_MS is counted in the old
\* window; a resetting call makes windowStart now, is counted as the first
\* call of the new window and is answered false
C30_StrictReset ==
  [][(CallStep /\ last'.outcome # "sampled_out")
       => IF now - windowStart > RATE_WINDOW_MS
          THEN /\ windowStart' = now
               /\ countInWindow' = 1
               /\ last'.outcome # "rate_limited"
          ELSE /\ windowStart' = windowStart
               /\ countInWindow' = countInWindow + 1
               /\ last'.outcome = "rate_limited" <=> countInWindow >= RATE_MAX]_vars

C30_Witness ==
  /\ last.called /\ now = windowStart + RATE_WINDOW_MS /\ ~last.elapsed
  /\ countInWindow = RATE_MAX + 1 /\ last.outcome = "rate_limited"

\* C31: when the call just made is the first limiter call counted in its
\* window, windowStart is the time of that call, in the first window after the
\* load of the module as in every later one
C31_WindowStartsAtFirstCall ==
  (last.called /\ last.outcome # "sampled_out" /\ countInWindow = 1)
    => windowStart = now

\* C32: the call that executes its sampler goes on to the limiter exactly when
\* the value drawn is below the sample rate in force, and otherwise returns
\* having touched neither the window, the store, the queue nor the sink; with
\* sample rate 0 it always returns there, with sample rate 1 or no
\* configuration it always goes on
C32_SamplerExact ==
  [][(/\ callStack # << >> /\ callStack' # callStack
      /\ Head(callStack).fn = "processError" /\ Head(callStack).pc = "sample")
       => /\ IF Head(callStack).random < EffectiveRate
             THEN /\ Len(callStack') = Len(callStack)
                  /\ Head(callStack').pc = "rate"
             ELSE /\ callStack' = Tail(callStack)
                  /\ last'.outcome = "sampled_out"
          /\ UNCHANGED <<windowStart, countInWindow, recent, queue, sunk, dispatched>>
          /\ (config.set /\ config.sampleRate = Num(0)) => callStack' = Tail(callStack)
          /\ (~config.set \/ config.sampleRate = Num(SAMPLE_DEFAULT))
               => Len(callStack') = Len(callStack)]_vars

C32_Witness ==
  /\ config.set /\ config.sampleRate = Num(0)
  /\ last.called /\ last.outcome = "sampled_out" /\ last.raw = PayloadA
  /\ callStack # << >> /\ callStack[1].fn = "microtask"
  /\ countInWindow = RATE_MAX - 2 /\ sunk # << >>

\* C33: a delivery of an error event to the installed window.onerror ends with
\* a value returned, never with an exception; it has called processError once
\* when the try block got as far as the call and not at all otherwise; it has
\* called the function installed before exactly once when there was one, also
\* when the try block failed; and it returns what that function returned, or
\* false when there was none or it threw
C33_HandlerChains ==
  (/\ fired.events > 0 /\ ~fired.delivering
   /\ fired.slot = "onerror" /\ fired.head.by = "watcher")
    => /\ fired.calls = (IF fired.built THEN 1 ELSE 0)
       /\ fired.pageCalls = (IF fired.head.prev[1].by = "page" THEN 1 ELSE 0)
       /\ fired.prevReturned = "none" <=> fired.head.prev[1].by # "page"
       /\ fired.result \in {"true", "false"}
       /\ fired.result = (IF fired.prevReturned = "true" THEN "true" ELSE "false")

C33_Witness ==
  /\ fired.events = MaxEvents /\ ~fired.delivering
  /\ fired.slot = "onerror" /\ fired.head = WatcherHandler(PageHandler)
  /\ ~fired.built /\ fired.calls = 0 /\ fired.pageCalls = 1
  /\ fired.prevReturned = "true" /\ fired.result = "true"

\* C34: the store never holds more than SWEEP_SIZE + 1 entries: a call that
\* finds more than SWEEP_SIZE entries leaves only those whose expiry is after
\* now, and its own
C34_StoreBounded == MapSize(recent) <= SWEEP_SIZE + 1

C34_Witness ==
  /\ MapSize(recent) = SWEEP_SIZE + 1
  /\ last.called /\ last.outcome = "dispatched" /\ last.raw = PayloadA
  /\ Cardinality({x \in DOMAIN recent : recent[x] > now}) = 1

\* C35: a call that passes the sampler adds one to the count of its window,
\* whether it is then rate-limited, faults, is dropped as a duplicate or is
\* dispatched (a call that finds the window elapsed is the first of a new
\* one); a call that does not pass the sampler leaves the count alone; and a
\* call that passes the sampler when RATE_MAX calls of the window have been
\* counted is rate-limited, whatever its payload and whatever became of the
\* calls counted
C35_DuplicatesCount ==
  [][CallStep
       => IF last'.outcome = "sampled_out"
          THEN countInWindow' = countInWindow /\ windowStart' = windowStart
          ELSE /\ countInWindow' = (IF now - windowStart > RATE_WINDOW_MS THEN 1
                                     ELSE countInWindow + 1)
               /\ (countInWindow >= RATE_MAX /\ ~(now - windowStart > RATE_WINDOW_MS))
                    => last'.outcome = "rate_limited"]_vars

C35_Witness ==
  /\ last.called /\ last.outcome = "rate_limited" /\ last.raw = PayloadB
  /\ countInWindow = RATE_MAX + 1 /\ windowStart = 0
  /\ win.calls = RATE_MAX + 1 /\ ~win.faulted
  /\ DOMAIN recent = {KeyOf(PayloadA)[1].v}
  /\ MapSize(dispatched) = 1

\* C36: a call dropped by the limiter leaves the store, the queue and the
\* sink as they were; the store holds the fingerprints of dispatched payloads
\* only; and a call that reaches the deduplicator is a duplicate only when a
\* payload of its fingerprint was dispatched less than DEDUP_TTL ms before, so
\* never on account of a call the limiter dropped
C36_DroppedNotRecorded ==
  [][CallStep
       => /\ last'.outcome = "rate_limited"
               => /\ recent' = recent
                  /\ UNCHANGED <<queue, sunk, dispatched>>
          /\ DOMAIN recent' = {f.v : f \in DOMAIN dispatched'}
          /\ last'.outcome = "duplicate"
               => /\ last'.since # << >>
                  /\ now < last'.since[1] + DEDUP_TTL
          /\ (last'.outcome \in {"duplicate", "dispatched"} /\ last'.since = << >>)
               => last'.outcome = "dispatched"]_vars

C36_Witness ==
  /\ last.called /\ last.outcome = "rate_limited" /\ last.raw = PayloadB
  /\ now = DEDUP_TTL - 1 /\ countInWindow = RATE_MAX + MaxOver
  /\ last.since = << >> /\ ~MapHas(recent, KeyOf(PayloadB)[1].v)
  /\ MapHas(recent, KeyOf(PayloadA)[1].v)

\* C37: every call of deduped answers as the deduplicator that never purges
\* answers the same call; the two stores hold the same expiry for every key
\* the purging one holds, and the purging one holds every key whose expiry is
\* after now
C37_SweepTransparent ==
  /\ applied.done => applied.dup = applied.dupReference
  /\ \A k \in DOMAIN recent :
       MapHas(applied.reference, k) /\ applied.reference[k] = recent[k]
  /\ \A k \in DOMAIN applied.reference :
       applied.reference[k] > now => MapHas(recent, k)

C37_Witness ==
  /\ applied.done /\ applied.calls >= 3
  /\ applied.key = FillerKey(1) /\ ~applied.dup /\ ~applied.dupReference
  /\ now = DEDUP_TTL
  /\ MapSize(applied.reference) = SWEEP_SIZE + 1
  /\ MapSize(recent) = SWEEP_SIZE \div 2 + 3
  /\ MapHas(recent, FillerKey(SWEEP_SIZE - 1))

\* C38: when the sink throws on every dispatch and every exception comes back
\* through window.onerror, the chain of dispatches that one error starts comes
\* to an end: from some point on no microtask is queued and no event is being
\* delivered
C38_ChainEnds == <>[](queue = << >> /\ ~fired.delivering)

\* C39: a payload that has passed the gates and is queued is handed to the
\* sink later on; the sink is given the oldest queued payload and no other,
\* that payload leaves the queue in the same step, and the queue changes
\* otherwise only by a payload added at its end, so that each payload is
\* handed over once and in the order of admission
C39_EventuallyOnceInOrder ==
  /\ \A raw \in LiveInputs, t \in Instants :
       (\E i \in 1..Len(queue) : queue[i].raw = raw /\ queue[i].at = t)
         ~> (sunk # << >> /\ sunk[1].raw = raw /\ sunk[1].at = t)
  /\ [][/\ sunk' # sunk
            => /\ queue # << >>
               /\ sunk' = <<[Head(queue) EXCEPT !.uncaught = FALSE]>>
               /\ queue' = Tail(queue)
        /\ queue' # queue
            => IF Len(queue') < Len(queue)
               THEN queue' = Tail(queue) /\ sunk' = <<Head(queue)>>
               ELSE /\ Len(queue') = Len(queue) + 1
                    /\ SubSeq(queue', 1, Len(queue)) = queue
                    /\ last'.called /\ last'.outcome = "dispatched"
                    /\ queue'[Len(queue')].payload = last'.queued[1]
                    /\ queue'[Len(queue')].at = now]_vars

C39_Witness ==
  /\ sunk # << >> /\ sunk[1].raw = PayloadA /\ sunk[1].at = 0
  /\ queue # << >> /\ queue[1].raw = PayloadB /\ queue[1].at = 0
  /\ Len(queue) = 1 /\ now = DEDUP_TTL - 1

\* C40 as stated: two payloads equal in every field but the message, whose
\* messages have the same first MESSAGE_MAX characters, get the same key in
\* processError, and the second, coming within the TTL, is dropped as a
\* duplicate of the first
C40_SameBeyondCap ==
  (applied.done /\ applied.arg.rel = "beyond")
    => /\ applied.key[1] = applied.key[2]
       /\ applied.dup

\* C40: two payloads equal in every field but the message, whose messages
\* are both longer than MESSAGE_MAX characters and have the same first
\* MESSAGE_MAX characters, get the same key in processError, the fingerprint
\* of the sanitized copy, and the second, coming within the TTL, is dropped
\* as a duplicate of the first
C40_SameWhenBothCut ==
  (/\ applied.done /\ applied.arg.rel = "beyond"
   /\ Len(applied.arg.p.message.v) > MESSAGE_MAX
   /\ Len(applied.arg.q.message.v) > MESSAGE_MAX)
    => /\ applied.key[1] = applied.key[2]
       /\ applied.dup
       /\ applied.key[1] = fingerprint(sanitizePayload(applied.arg.p).val).val

C40_Witness ==
  /\ applied.done /\ applied.arg.rel = "beyond"
  /\ Len(applied.arg.p.message.v) = MESSAGE_MAX + 1
  /\ Len(applied.arg.q.message.v) = MESSAGE_MAX + MaxBeyond
  /\ applied.fp[1] # applied.fp[2]
  /\ applied.key[1] = applied.key[2] /\ applied.dup
====
